---------------------------- MODULE Spec2Model ----------------------------
(***************************************************************************)
(* Model of the ingestion and retrieval core of DiscoveryRAGAgent-backend: *)
(*   - the Chunk Splitter  (DocumentIngestor.chunk_document and            *)
(*     DocumentIngestor.chunk_document_semantic),                          *)
(*   - the Index Writer    (DocumentIngestor.index_document),              *)
(*   - the Hybrid Retriever (RAGIntegration.search_documents,              *)
(*     _keyword_search, _local_file_search, process_query) and             *)
(*     RAGIntegration._merge_documents,                                    *)
(*   - RAGIntegration._expand_query, _rerank_documents and                 *)
(*     _build_rag_context,                                                 *)
(*   - a DocumentIngestor instance (construction, process_document,        *)
(*     index_document, reindex_all_documents), detect_semantic_context     *)
(*     and the delete route of the documents API.                          *)
(* Document bodies of the splitter and the index writer are sequences of   *)
(* one-character strings; queries, labels and rendered text are strings.   *)
(***************************************************************************)
EXTENDS Integers, Sequences, FiniteSets, TLC

VARIABLES
    \* ---- Chunk Splitter ----
    body,         \* document["content"] handed to the splitter
    chunk_size,   \* argument chunk_size of the last chunk_document call
    overlap,      \* argument overlap of the last chunk_document call
    chunks,       \* contents returned by the last chunk_document call
    semchunks,    \* contents returned by the last chunk_document_semantic call
    pc,           \* which operation returned last
    \* ---- Index Writer ----
    files,        \* the source files: file name -> body
    store,        \* the objects of class Document in the vector store
    clock,        \* number of ingestion runs so far (the source of processed_at)
    prevRun,      \* the ingestion run before the last one (NoRun when none)
    lastRun,      \* the last ingestion run (NoRun when none)
    \* ---- Hybrid Retriever (one RAGIntegration instance) ----
    client,              \* self.client: "none" or "client"
    weaviate_connected,  \* self.weaviate_connected
    mirror,              \* the local file mirror data/raw: "missing" or "present"
    lastOp,              \* the public operation that returned last
    trace,               \* the retrieval tiers entered by the last operation, in order
    calls,               \* the vector-store calls of the last operation and their outcomes
    sem,                 \* outcome of the semantic tier in the last operation, and
                         \* what client.schema.get() replied ("unread": not called)
    result,              \* the list the last operation returned / handed on
    \* ---- _merge_documents ----
    primary_docs,        \* argument primary_docs
    secondary_docs,      \* argument secondary_docs
    merged_docs,         \* the list returned
    merge_pc,            \* "ready" before the call, "merged" after it
    \* ---- _expand_query ----
    query,               \* argument query
    expanded_query,      \* the string returned
    expand_pc,           \* "ready" before the call, "expanded" after it
    \* ---- _rerank_documents ----
    rerank_query,        \* argument query
    documents,           \* argument documents
    reranked,            \* the list returned
    rerank_pc,           \* "ready" before the call, "reranked" after it
    \* ---- DocumentIngestor instance and the documents API ----
    ingestor,            \* "none" until DocumentIngestor() has returned, then "ready"
    kinds,               \* per file of the directory: "text" or "unreadable" (open raises)
    documents_db,        \* routes.documents_db: the files registered, keyed by document id
    call,                \* the last public operation, its outcome and what it did
    \* ---- detect_semantic_context ----
    text,                \* argument text
    context_label,       \* the label returned
    detect_pc,           \* "ready" before the call, "detected" after it
    \* ---- _build_rag_context ----
    context_documents,   \* argument documents
    context_query,       \* argument query
    rag_context,         \* the string returned
    context_pc,          \* "ready" before the call, "built" after it
    \* ---- the schema of the vector store ----
    schema_classes,      \* the names of the classes of the schema
    \* ---- the vector store as the retriever finds it ----
    store_ready,         \* what is_ready() would answer during the last operation
    \* ---- ObjectiveClassifier: objective types and system ids ----
    objective,           \* argument of the last get_objective_id call
    objective_id,        \* the id it returned
    id_arg,              \* argument of the last get_objective_from_id call
    objective_from_id,   \* the objective type it returned
    \* ---- FeedbackManager ----
    feedback_file,       \* content of user_feedback.json: a list of entries, or "corrupt"
    saving,              \* per caller: where its save_feedback call stands, and its locals
    feedback_log,        \* the save_feedback calls that returned, in the order they returned
    feedback_view,       \* what the last get_all_feedback / get_feedback_stats call returned
    \* ---- concurrent queries on the shared RAGIntegration instance ----
    constructed,         \* weaviate_connected as the constructor left it
    running              \* per query: where its search_documents call stands, and its locals

chunkVars == <<body, chunk_size, overlap, chunks, semchunks, pc>>
indexVars == <<files, store, clock, prevRun, lastRun>>
searchVars == <<client, weaviate_connected, mirror, lastOp, trace, calls, sem, result>>
mergeVars == <<primary_docs, secondary_docs, merged_docs, merge_pc>>
coreVars == <<chunkVars, indexVars, searchVars, mergeVars>>
expandVars == <<query, expanded_query, expand_pc>>
rerankVars == <<rerank_query, documents, reranked, rerank_pc>>
ingestVars == <<ingestor, kinds, documents_db, call>>
detectVars == <<text, context_label, detect_pc>>
contextVars == <<context_documents, context_query, rag_context, context_pc>>
auxVars == <<expandVars, rerankVars, ingestVars, detectVars, contextVars>>
schemaVars == <<schema_classes>>
readyVars == <<store_ready>>
objectiveVars == <<objective, objective_id, id_arg, objective_from_id>>
feedbackVars == <<feedback_file, saving, feedback_log, feedback_view>>
concurrentVars == <<constructed, running>>
lateVars == <<schemaVars, readyVars, objectiveVars, feedbackVars, concurrentVars>>
lateButSchema == <<readyVars, objectiveVars, feedbackVars, concurrentVars>>
lateButReady == <<schemaVars, objectiveVars, feedbackVars, concurrentVars>>
lateButObjective == <<schemaVars, readyVars, feedbackVars, concurrentVars>>
lateButFeedback == <<schemaVars, readyVars, objectiveVars, concurrentVars>>
lateButConcurrent == <<schemaVars, readyVars, objectiveVars, feedbackVars>>
vars == <<coreVars, auxVars, lateVars>>

-----------------------------------------------------------------------------
(* Bounds of the model *)

MaxBodyLen == 6     \* longest document body explored
MaxChunkSize == 4   \* largest chunk_size argument explored

MaxParagraphs == 3  \* most paragraphs in the body of an indexed file
MaxRuns == 2        \* most ingestion runs in a behaviour
MaxStoreDocs == 6   \* objects in the store the retriever queries
MaxListLen == 2     \* longest candidate list handed to _merge_documents

(* Program constants *)

DefaultChunkSize == 1000
DefaultOverlap == 200
HeaderMaxLen == 100
UpperHeaderMaxLen == 50
TitleHeaderLen == 50
HashPrefixLen == 1000
ProcessQueryLimit == 15
KeywordDefaultLimit == 10
MinRelevantDocs == 5

-----------------------------------------------------------------------------
(* Characters *)

NL == "\n"
Whitespace == {" ", NL, "\t"}
UpperCase == {"A", "B"}
LowerCase == {"a", "b"}
Digits == {"1", "2"}
Letters == UpperCase \cup LowerCase

\* the characters bodies are drawn from
Alphabet == {NL, "a", "A"}

Min(a, b) == IF a < b THEN a ELSE b

RECURSIVE SeqsUpTo(_, _)
SeqsUpTo(S, n) ==
    IF n = 0 THEN {<<>>}
    ELSE LET shorter == SeqsUpTo(S, n - 1)
         IN  shorter \cup {Append(s, c) : s \in {t \in shorter : Len(t) = n - 1}, c \in S}

Bodies == SeqsUpTo(Alphabet, MaxBodyLen)

\* Python s[i:j] with 0 <= i, for 0-based i and j
Slice(s, i, j) == SubSeq(s, i + 1, Min(j, Len(s)))

\* Python `sub in s`
IsSubstring(sub, s) ==
    \E i \in 0..(Len(s) - Len(sub)) : SubSeq(s, i + 1, i + Len(sub)) = sub

-----------------------------------------------------------------------------
(* str.split("\n\n"): the paragraphs of a body, each as the interval of    *)
(* 1-based positions [from, to] it occupies (to = from - 1 when empty).    *)
(* The scan from position i goes straight to the leftmost separator at or  *)
(* after i.                                                                *)

RECURSIVE SplitFrom(_, _, _)
SplitFrom(s, i, start) ==
    LET seps == {k \in i..(Len(s) - 1) : s[k] = NL /\ s[k + 1] = NL}
    IN  IF seps = {}
        THEN <<[from |-> start, to |-> Len(s)]>>
        ELSE LET k == CHOOSE m \in seps : \A n \in seps : m <= n
             IN  <<[from |-> start, to |-> k - 1]>> \o SplitFrom(s, k + 2, k + 2)

SplitParagraphs(s) == SplitFrom(s, 1, 1)

ParText(s, p) == SubSeq(s, p.from, p.to)

-----------------------------------------------------------------------------
(* DocumentIngestor.chunk_document: the list `chunks` it builds.  Every    *)
(* chunk carries, beside its text, the position `start` of its first       *)
(* character in the body (bookkeeping used to state coverage).             *)

\* a plausible slip: the window advances by chunk_size + overlap
RECURSIVE WindowsSignSlip(_, _, _, _, _)
WindowsSignSlip(par, i, size, step, base) ==
    IF i >= Len(par)
    THEN <<>>
    ELSE <<[content |-> Slice(par, i, i + size), start |-> base + i]>>
         \o WindowsSignSlip(par, i + (2 * size - step), size, step, base)

\* for i in range(0, len(paragraph), chunk_size - overlap):
\*     chunks.append(paragraph[i:i + chunk_size])
RECURSIVE Windows(_, _, _, _, _)
Windows(par, i, size, step, base) ==
    IF i >= Len(par)
    THEN <<>>
    ELSE <<[content |-> Slice(par, i, i + size), start |-> base + i]>>
         \o Windows(par, i + step, size, step, base)

RECURSIVE ChunkLoop(_, _, _, _, _, _, _, _)
ChunkLoop(content, paras, k, acc, cur, curStart, size, ov) ==
    IF k > Len(paras)
    THEN IF cur # <<>> THEN Append(acc, [content |-> cur, start |-> curStart]) ELSE acc
    ELSE LET p == paras[k]
             paragraph == ParText(content, p)
         IN  IF Len(paragraph) > size
             THEN LET flushed == IF cur # <<>>
                                 THEN Append(acc, [content |-> cur, start |-> curStart])
                                 ELSE acc
                  IN  ChunkLoop(content, paras, k + 1,
                                flushed \o Windows(paragraph, 0, size, size - ov, p.from),
                                <<>>, 0, size, ov)
             ELSE IF Len(cur) + Len(paragraph) > size
             THEN ChunkLoop(content, paras, k + 1,
                            Append(acc, [content |-> cur, start |-> curStart]),
                            paragraph, p.from, size, ov)
             ELSE IF cur # <<>>
                  THEN ChunkLoop(content, paras, k + 1, acc,
                                 cur \o <<NL, NL>> \o paragraph, curStart, size, ov)
                  ELSE ChunkLoop(content, paras, k + 1, acc,
                                 paragraph, p.from, size, ov)

\* chunk_document(document, chunk_size, overlap), for chunk_size - overlap >= 1.
\* part = i + 1 of the title "<title> - Parte {i+1}"; part = 0 marks the
\* document returned as it is.
ChunkDocument(content, size, ov) ==
    IF content = <<>>
    THEN <<[content |-> content, start |-> 1, part |-> 0]>>     \* return [document]
    ELSE LET cs == ChunkLoop(content, SplitParagraphs(content), 1, <<>>, <<>>, 0, size, ov)
         IN  [i \in 1..Len(cs) |->
                 [content |-> cs[i].content, start |-> cs[i].start, part |-> i]]

-----------------------------------------------------------------------------
(* DocumentIngestor.chunk_document_semantic *)

\* str.strip()
RECURSIVE LStrip(_)
LStrip(s) == IF s # <<>> /\ Head(s) \in Whitespace THEN LStrip(Tail(s)) ELSE s

RECURSIVE RStrip(_)
RStrip(s) ==
    IF s # <<>> /\ s[Len(s)] \in Whitespace THEN RStrip(SubSeq(s, 1, Len(s) - 1)) ELSE s

Strip(s) == RStrip(LStrip(s))

AllIn(s, i, j, S) == \A k \in i..j : s[k] \in S
NoNewline(s, i, j) == \A k \in i..j : s[k] # NL

\* r'^#+\s+(.+)$'
MatchMarkdownHeader(s) ==
    \E i \in 1..Len(s) : \E j \in (i + 1)..(Len(s) - 1) :
        /\ AllIn(s, 1, i, {"#"})
        /\ AllIn(s, i + 1, j, Whitespace)
        /\ NoNewline(s, j + 1, Len(s))

\* r'^(.+)\n[=\-]{3,}$'
MatchUnderlinedHeader(s) ==
    \E i \in 1..(Len(s) - 4) :
        /\ NoNewline(s, 1, i)
        /\ s[i + 1] = NL
        /\ AllIn(s, i + 2, Len(s), {"=", "-"})

\* r'^(\d+\.?\s+.+)$'
MatchNumberedSection(s) ==
    \E i \in 1..Len(s) : \E d \in 0..1 : \E j \in (i + d + 1)..(Len(s) - 1) :
        /\ AllIn(s, 1, i, Digits)
        /\ d = 1 => s[i + 1] = "."
        /\ AllIn(s, i + d + 1, j, Whitespace)
        /\ NoNewline(s, j + 1, Len(s))

\* r'^([A-Z][A-Za-z\s]+:)$'
MatchLabelWithColon(s) ==
    /\ Len(s) >= 3
    /\ s[1] \in UpperCase
    /\ AllIn(s, 2, Len(s) - 1, Letters \cup Whitespace)
    /\ s[Len(s)] = ":"

\* r'^([A-Z][A-Za-z\s]+)$'
MatchCapitalizedLine(s) ==
    /\ Len(s) >= 2
    /\ s[1] \in UpperCase
    /\ AllIn(s, 2, Len(s), Letters \cup Whitespace)

\* str.isupper()
IsUpper(s) ==
    /\ \E k \in 1..Len(s) : s[k] \in UpperCase
    /\ \A k \in 1..Len(s) : s[k] \notin LowerCase

is_header(par) ==
    LET paragraph == Strip(par)
    IN  IF Len(paragraph) > HeaderMaxLen
        THEN FALSE
        ELSE \/ MatchMarkdownHeader(paragraph)
             \/ MatchUnderlinedHeader(paragraph)
             \/ MatchNumberedSection(paragraph)
             \/ MatchLabelWithColon(paragraph)
             \/ MatchCapitalizedLine(paragraph)
             \/ (IsUpper(paragraph) /\ Len(paragraph) < UpperHeaderMaxLen)

\* paragraphs = [p for p in content.split("\n\n") if p.strip()]
RECURSIVE NonBlank(_)
NonBlank(ps) ==
    IF ps = <<>> THEN <<>>
    ELSE IF Strip(Head(ps)) # <<>>
         THEN <<Head(ps)>> \o NonBlank(Tail(ps))
         ELSE NonBlank(Tail(ps))

ParagraphTexts(content) ==
    LET ps == SplitParagraphs(content)
    IN  [k \in 1..Len(ps) |-> ParText(content, ps[k])]

SemanticParagraphs(content) == NonBlank(ParagraphTexts(content))

\* the grouping loop: a section is saved only if it has content paragraphs
RECURSIVE SectionLoop(_, _, _, _)
SectionLoop(paras, k, sections, current) ==
    IF k > Len(paras)
    THEN IF current.content # <<>> THEN Append(sections, current) ELSE sections
    ELSE IF is_header(paras[k])
         THEN SectionLoop(paras, k + 1,
                          IF current.content # <<>> THEN Append(sections, current)
                                                    ELSE sections,
                          [header |-> paras[k], content |-> <<>>])
         ELSE SectionLoop(paras, k + 1, sections,
                          [current EXCEPT !.content = Append(@, paras[k])])

Sections(content) ==
    SectionLoop(SemanticParagraphs(content), 1, <<>>, [header |-> <<>>, content |-> <<>>])

\* "\n\n".join(parts)
RECURSIVE Join(_)
Join(parts) ==
    IF parts = <<>> THEN <<>>
    ELSE IF Len(parts) = 1 THEN parts[1]
         ELSE parts[1] \o <<NL, NL>> \o Join(Tail(parts))

SectionContent(section) ==
    IF section.content # <<>>
    THEN section.header \o <<NL, NL>> \o Join(section.content)
    ELSE section.header

\* chunk_document_semantic(document): the content of each chunk and what its
\* title is built from: kind "document" (the document returned as it is),
\* "part" (fixed-window fallback, "<title> - Parte {part}") or "section"
\* ("<title> - {header[:50]}").
ChunkDocumentSemantic(content) ==
    IF content = <<>>
    THEN <<[content |-> content, kind |-> "document", part |-> 0, header |-> <<>>]>>
    ELSE LET sections == Sections(content)
         IN  IF sections = <<>>
             THEN LET fixed == ChunkDocument(content, DefaultChunkSize, DefaultOverlap)
                  IN  [i \in 1..Len(fixed) |->
                          [content |-> fixed[i].content, kind |-> "part",
                           part |-> fixed[i].part, header |-> <<>>]]
             ELSE [i \in 1..Len(sections) |->
                      [content |-> SectionContent(sections[i]), kind |-> "section",
                       part |-> 0, header |-> sections[i].header]]

-----------------------------------------------------------------------------
(* DocumentIngestor.index_document over a vector store.  The store holds   *)
(* one object per uuid: adding an object under a uuid already present      *)
(* replaces the object (upsert).                                           *)

FileNames == {"f1.txt", "f2.txt"}

NoRun == [file |-> "none"]

\* bodies of indexed files: up to MaxParagraphs paragraphs joined by blank lines
ParagraphChoices == {<<"a">>, <<"A">>}
IndexBodies == {Join(ps) : ps \in SeqsUpTo(ParagraphChoices, MaxParagraphs)}

\* process_document for a text file: title is the file's base name
ProcessDocument(f, content, now) ==
    [title |-> f, content |-> content,
     metadata |-> [file_path |-> f, processed_at |-> now]]

\* re.sub(r'[\uD800-\uDFFF]', '', content) and the utf-8 round trip
SurrogateChars == {"\\uD800", "\\uDFFF"}
Sanitize(s) == SelectSeq(s, LAMBDA c : c \notin SurrogateChars)

\* the chunk documents index_document iterates over; a title
\* "<title> - Parte {part}" or "<title> - {header[:50]}" is kept as its parts
ChunkTitle(document, c) ==
    [base |-> document.title, kind |-> c.kind, part |-> c.part,
     header |-> Slice(c.header, 0, TitleHeaderLen)]

SanitizeTitle(t) == [t EXCEPT !.header = Sanitize(@)]

ChunkDocs(document) ==
    LET cs == ChunkDocumentSemantic(document.content)
    IN  [i \in 1..Len(cs) |->
            [title |-> ChunkTitle(document, cs[i]),
             content |-> cs[i].content,
             metadata |-> document.metadata]]

\* a plausible slip: the identifier also covers the serialized metadata
ContentHashWithMetadata(content, title, metadata_json) ==
    <<"uuid5", IF content # <<>> THEN Slice(content, 0, HashPrefixLen) ELSE <<"empty">>,
      metadata_json>>

\* a plausible slip: the identifier also covers the chunk title
ContentHashWithTitle(content, title, metadata_json) ==
    <<"uuid5", IF content # <<>> THEN Slice(content, 0, HashPrefixLen) ELSE <<"empty">>,
      title>>

\* str(uuid.uuid5(uuid.NAMESPACE_DNS, content[:1000] if content else "empty")):
\* uuid5 is taken as injective on its name argument
ContentHash(content, title, metadata_json) ==
    <<"uuid5", IF content # <<>> THEN Slice(content, 0, HashPrefixLen) ELSE <<"empty">>>>

\* the object written for one chunk, with the uuid it is written under
DataObject(chunk) ==
    LET metadata_json == [file_path |-> chunk.metadata.file_path,
                          processed_at |-> chunk.metadata.processed_at]
        content == Sanitize(chunk.content)
        title == SanitizeTitle(chunk.title)
    IN  [uuid |-> ContentHash(content, title, metadata_json),
         title |-> title,
         content |-> content,
         metadata_json |-> metadata_json,
         file_path |-> metadata_json.file_path,
         file_name |-> metadata_json.file_path]

\* the store after batch.add_data_object(data_object, "Document", uuid) is flushed
Upsert(st, obj) == {o \in st : o.uuid # obj.uuid} \cup {obj}

\* the store after the first n objects of objs are written, in order
RECURSIVE WriteUpTo(_, _, _)
WriteUpTo(st, objs, n) ==
    IF n = 0 THEN st ELSE Upsert(WriteUpTo(st, objs, n - 1), objs[n])

WriteAll(st, objs) == WriteUpTo(st, objs, Len(objs))

\* a plausible slip: the first chunk that fails ends the loop
RECURSIVE HandedUntilFailure(_, _, _)
HandedUntilFailure(cks, i, failing) ==
    IF i > Len(cks) \/ i \in failing THEN <<>>
    ELSE <<DataObject(cks[i])>> \o HandedUntilFailure(cks, i + 1, failing)

\* the objects handed to the batch, in order: the chunks whose preparation
\* or add_data_object call raised (`failing`) are skipped by `continue`
RECURSIVE Handed(_, _, _)
Handed(cks, i, failing) ==
    IF i > Len(cks) THEN <<>>
    ELSE IF i \in failing
         THEN Handed(cks, i + 1, failing)
         ELSE <<DataObject(cks[i])>> \o Handed(cks, i + 1, failing)

\* index_document(document): `flushRaises` is the batch raising when the
\* `with` block is left (every model document has fewer chunks than the
\* batch size of 10, so that is the only flush)
IndexDocument(st, document, failing, flushRaises) ==
    LET objs == Handed(ChunkDocs(document), 1, failing)
    IN  IF flushRaises
        THEN [store |-> st, ok |-> FALSE, handed |-> objs, written |-> {}]
        ELSE [store |-> WriteAll(st, objs), ok |-> TRUE, handed |-> objs,
              written |-> {objs[i].uuid : i \in 1..Len(objs)}]

StoreCount(st) == Cardinality(st)

-----------------------------------------------------------------------------
(* RAGIntegration: search_documents, _keyword_search, _local_file_search,  *)
(* _merge_documents and the retrieval steps of process_query.              *)
(*                                                                         *)
(* A candidate is a record: title, origin ("store" or "local"), kw (the    *)
(* term-frequency score _keyword_search / _local_file_search computes for  *)
(* it against the query), rr (the score _rerank_documents computes for it) *)
(* and score (the "score" key the keyword tiers add; -1 when absent).      *)

StoreDocs ==
    [i \in 1..MaxStoreDocs |->
        [title |-> i, origin |-> "store", kw |-> i % 3, rr |-> (2 * i) % 5, score |-> -1]]

LocalDocs ==
    <<[title |-> 101, origin |-> "local", kw |-> 1, rr |-> 0, score |-> -1],
      [title |-> 102, origin |-> "local", kw |-> 0, rr |-> 0, score |-> -1],
      [title |-> 103, origin |-> "local", kw |-> 2, rr |-> 0, score |-> -1]>>

\* list.sort(key=lambda x: x[field], reverse=True): stable, greatest key first
RECURSIVE InsertDesc(_, _, _)
InsertDesc(sorted, d, field) ==
    IF sorted = <<>> THEN <<d>>
    ELSE IF Head(sorted)[field] >= d[field]
         THEN <<Head(sorted)>> \o InsertDesc(Tail(sorted), d, field)
         ELSE <<d>> \o sorted

RECURSIVE SortDesc(_, _)
SortDesc(docs, field) ==
    IF docs = <<>> THEN <<>>
    ELSE InsertDesc(SortDesc(SubSeq(docs, 1, Len(docs) - 1), field), docs[Len(docs)], field)

\* score > 0 filter, doc["score"] = score, sort, [:limit]
ScoreAndRank(docs, limit) ==
    LET scored == [i \in 1..Len(docs) |-> [docs[i] EXCEPT !.score = docs[i].kw]]
        relevant == SelectSeq(scored, LAMBDA d : d.score > 0)
    IN  Slice(SortDesc(relevant, "score"), 0, limit)

\* _local_file_search: [] when the directory is missing
LocalFileSearch(mir, limit) ==
    IF mir = "missing" THEN <<>> ELSE ScoreAndRank(LocalDocs, limit)

\* a plausible slip: a failing store query ends the keyword tier with []
KeywordSearchNoLocalFallback(cl, connected, getall, mir, limit) ==
    IF cl = "none" \/ ~connected
    THEN [docs |-> LocalFileSearch(mir, limit), trace |-> <<"keyword", "local">>,
          calls |-> <<>>]
    ELSE IF getall = "raise"
    THEN [docs |-> <<>>, trace |-> <<"keyword">>,
          calls |-> <<[call |-> "get_all", outcome |-> "raise"]>>]
    ELSE [docs |-> ScoreAndRank(StoreDocs, limit), trace |-> <<"keyword">>,
          calls |-> <<[call |-> "get_all", outcome |-> "ok"]>>]

\* _keyword_search(query, limit); `getall` is the outcome of the store query
KeywordSearch(cl, connected, getall, mir, limit) ==
    IF cl = "none" \/ ~connected
    THEN [docs |-> LocalFileSearch(mir, limit), trace |-> <<"keyword", "local">>,
          calls |-> <<>>]
    ELSE IF getall = "raise"
    THEN [docs |-> LocalFileSearch(mir, limit), trace |-> <<"keyword", "local">>,
          calls |-> <<[call |-> "get_all", outcome |-> "raise"]>>]
    ELSE [docs |-> ScoreAndRank(StoreDocs, limit), trace |-> <<"keyword">>,
          calls |-> <<[call |-> "get_all", outcome |-> "ok"]>>]

\* _rerank_documents: stable sort by the rerank score, greatest first
RerankDocuments(docs) == SortDesc(docs, "rr")

\* the vectorizer search_documents reads from the schema: "none" when the
\* schema cannot be read or has no Document class, None ("missing") when the
\* class has no vectorizer key
Vectorizer(schema) ==
    CASE schema = "raise" -> "none"
      [] schema = "no_class" -> "none"
      [] schema = "vectorizer_none" -> "none"
      [] schema = "no_vectorizer_key" -> "missing"
      [] OTHER -> "text2vec-openai"

SchemaOutcomes == {"raise", "no_class", "vectorizer_none", "no_vectorizer_key", "text2vec"}
ReadyOutcomes == {"true", "false", "raise"}
QueryOutcomes == {"raise", "ok"}
SemanticOutcomes == {-1} \cup (0..MaxStoreDocs)     \* -1: the query raises

Envs ==
    [ready : ReadyOutcomes, schema : SchemaOutcomes, semantic : SemanticOutcomes,
     getall : QueryOutcomes, getall2 : QueryOutcomes]

Call(c, o) == [call |-> c, outcome |-> o]

\* search_documents(query, expanded_query, limit)
SearchDocuments(cl, connected, e, mir, limit) ==
    IF cl = "none" \/ ~connected
    THEN LET k == KeywordSearch(cl, connected, e.getall, mir, limit)
         IN  [docs |-> k.docs, trace |-> k.trace, calls |-> k.calls,
              connected |-> connected, sem |-> [status |-> "skipped", n |-> 0, schema |-> "unread"]]
    ELSE IF e.ready = "raise"
    THEN LET k == KeywordSearch(cl, connected, e.getall, mir, limit)
         IN  [docs |-> k.docs, trace |-> k.trace,
              calls |-> <<Call("is_ready", "raise")>> \o k.calls,
              connected |-> connected, sem |-> [status |-> "skipped", n |-> 0, schema |-> "unread"]]
    ELSE IF e.ready = "false"
    THEN LET k == KeywordSearch(cl, FALSE, e.getall, mir, limit)
         IN  [docs |-> k.docs, trace |-> k.trace,
              calls |-> <<Call("is_ready", "ok")>> \o k.calls,
              connected |-> FALSE, sem |-> [status |-> "skipped", n |-> 0, schema |-> "unread"]]
    ELSE LET vectorizer == Vectorizer(e.schema)
             c1 == <<Call("is_ready", "ok"),
                     Call("schema_get", IF e.schema = "raise" THEN "raise" ELSE "ok")>>
             attempted == vectorizer # "none"
             semDocs == IF attempted /\ e.semantic >= 0
                        THEN Slice(StoreDocs, 0, Min(e.semantic, limit))
                        ELSE <<>>
             c2 == IF attempted
                   THEN <<Call("near_text", IF e.semantic < 0 THEN "raise" ELSE "ok")>>
                   ELSE <<>>
             t2 == IF attempted THEN <<"semantic">> ELSE <<>>
             s2 == IF ~attempted
                   THEN [status |-> "skipped", n |-> 0, schema |-> e.schema]
                   ELSE IF e.semantic < 0
                   THEN [status |-> "raised", n |-> 0, schema |-> e.schema]
                   ELSE [status |-> "returned", n |-> Len(semDocs), schema |-> e.schema]
         IN  IF semDocs = <<>>
             THEN LET k == KeywordSearch(cl, TRUE, e.getall, mir, limit)
                  IN  [docs |-> RerankDocuments(k.docs), trace |-> t2 \o k.trace,
                       calls |-> c1 \o c2 \o k.calls, connected |-> TRUE, sem |-> s2]
             ELSE [docs |-> RerankDocuments(semDocs), trace |-> t2,
                   calls |-> c1 \o c2, connected |-> TRUE, sem |-> s2]

\* _merge_documents(primary_docs, secondary_docs)
RECURSIVE MergeLoop(_, _, _)
MergeLoop(docs, included_titles, acc) ==
    IF docs = <<>> THEN acc
    ELSE IF Head(docs).title \notin included_titles
         THEN MergeLoop(Tail(docs), included_titles \cup {Head(docs).title},
                        Append(acc, Head(docs)))
         ELSE MergeLoop(Tail(docs), included_titles, acc)

MergeDocuments(primary, secondary) ==
    IF primary = <<>> THEN secondary
    ELSE IF secondary = <<>> THEN primary
    ELSE LET first == MergeLoop(primary, {}, <<>>)
         IN  MergeLoop(secondary, {first[i].title : i \in 1..Len(first)}, first)

\* a plausible slip: the fallback is taken at five documents too
NeedsFallbackOffByOne(docs) == Len(docs) <= MinRelevantDocs

\* process_query: if len(relevant_docs) < 5
NeedsFallback(docs) == Len(docs) < MinRelevantDocs

\* process_query up to the list it hands to _build_rag_context
ProcessQuery(cl, connected, e, mir) ==
    LET s1 == SearchDocuments(cl, connected, e, mir, ProcessQueryLimit)
    IN  IF NeedsFallback(s1.docs)
        THEN LET k == KeywordSearch(cl, s1.connected, e.getall2, mir, KeywordDefaultLimit)
             IN  [docs |-> MergeDocuments(s1.docs, k.docs),
                  trace |-> s1.trace \o k.trace, calls |-> s1.calls \o k.calls,
                  connected |-> s1.connected, sem |-> s1.sem]
        ELSE s1

\* RAGIntegration.__init__: the client handle and weaviate_connected
Construct(outcome) ==
    CASE outcome = "client_raises" -> [client |-> "none", connected |-> FALSE]
      [] outcome = "is_ready_raises" -> [client |-> "none", connected |-> FALSE]
      [] outcome = "not_ready" -> [client |-> "client", connected |-> FALSE]
      [] OTHER -> [client |-> "client", connected |-> TRUE]

ConstructOutcomes == {"client_raises", "is_ready_raises", "not_ready", "ready"}

-----------------------------------------------------------------------------
(* Specification of the Chunk Splitter: a body is drawn, then split. *)

IdleChunk ==
    /\ body = <<>>
    /\ chunk_size = 0
    /\ overlap = 0
    /\ chunks = <<>>
    /\ semchunks = <<>>
    /\ pc = "idle"

IdleIndex ==
    /\ files = [f \in FileNames |-> <<>>]
    /\ store = {}
    /\ clock = 0
    /\ prevRun = NoRun
    /\ lastRun = NoRun

IdleSearch ==
    /\ client = "none"
    /\ weaviate_connected = FALSE
    /\ mirror = "missing"
    /\ lastOp = "idle"
    /\ trace = <<>>
    /\ calls = <<>>
    /\ sem = [status |-> "idle", n |-> 0, schema |-> "unread"]
    /\ result = <<>>

IdleMerge ==
    /\ primary_docs = <<>>
    /\ secondary_docs = <<>>
    /\ merged_docs = <<>>
    /\ merge_pc = "idle"

IdleExpand ==
    /\ query = ""
    /\ expanded_query = ""
    /\ expand_pc = "idle"

IdleRerank ==
    /\ rerank_query = ""
    /\ documents = <<>>
    /\ reranked = <<>>
    /\ rerank_pc = "idle"

IdleIngest ==
    /\ ingestor = "none"
    /\ kinds = <<>>
    /\ documents_db = {}
    /\ call = [op |-> "none"]

IdleDetect ==
    /\ text = ""
    /\ context_label = ""
    /\ detect_pc = "idle"

IdleContext ==
    /\ context_documents = <<>>
    /\ context_query = ""
    /\ rag_context = ""
    /\ context_pc = "idle"

IdleSchema == schema_classes = {}

IdleReady == store_ready = "unknown"

IdleObjective ==
    /\ objective = ""
    /\ objective_id = ""
    /\ id_arg = ""
    /\ objective_from_id = ""

IdleFeedback ==
    /\ feedback_file = <<>>
    /\ saving = <<>>
    /\ feedback_log = <<>>
    /\ feedback_view = [op |-> "none"]

IdleConcurrent ==
    /\ constructed = FALSE
    /\ running = <<>>

IdleLate ==
    /\ IdleSchema
    /\ IdleReady
    /\ IdleObjective
    /\ IdleFeedback
    /\ IdleConcurrent

IdleLateButSchema ==
    /\ IdleReady
    /\ IdleObjective
    /\ IdleFeedback
    /\ IdleConcurrent

IdleLateButReady ==
    /\ IdleSchema
    /\ IdleObjective
    /\ IdleFeedback
    /\ IdleConcurrent

IdleLateButObjective ==
    /\ IdleSchema
    /\ IdleReady
    /\ IdleFeedback
    /\ IdleConcurrent

IdleLateButFeedback ==
    /\ IdleSchema
    /\ IdleReady
    /\ IdleObjective
    /\ IdleConcurrent

IdleLateButConcurrent ==
    /\ IdleSchema
    /\ IdleReady
    /\ IdleObjective
    /\ IdleFeedback

IdleAux ==
    /\ IdleExpand
    /\ IdleRerank
    /\ IdleIngest
    /\ IdleDetect
    /\ IdleContext

\* every variable outside the late groups at its idle value
IdleEarly ==
    /\ IdleAux
    /\ IdleChunk
    /\ IdleIndex
    /\ IdleSearch
    /\ IdleMerge

InitChunk ==
    /\ IdleLate
    /\ IdleAux
    /\ IdleIndex
    /\ IdleSearch
    /\ IdleMerge
    /\ body \in Bodies
    /\ chunk_size = 0
    /\ overlap = 0
    /\ chunks = <<>>
    /\ semchunks = <<>>
    /\ pc = "ready"

CallChunkDocument ==
    /\ pc = "ready"
    /\ \E size \in 1..MaxChunkSize :
         \E ov \in 0..(size - 1) :
            /\ chunk_size' = size
            /\ overlap' = ov
            /\ chunks' = ChunkDocument(body, size, ov)
    /\ pc' = "chunk_document"
    /\ UNCHANGED <<body, semchunks>>
    /\ UNCHANGED <<indexVars, searchVars, mergeVars, auxVars, lateVars>>

CallChunkDocumentSemantic ==
    /\ pc = "ready"
    /\ semchunks' = ChunkDocumentSemantic(body)
    /\ pc' = "chunk_document_semantic"
    /\ UNCHANGED <<body, chunk_size, overlap, chunks>>
    /\ UNCHANGED <<indexVars, searchVars, mergeVars, auxVars, lateVars>>

NextChunk == CallChunkDocument \/ CallChunkDocumentSemantic

SpecChunk == InitChunk /\ [][NextChunk]_vars

-----------------------------------------------------------------------------
(* Specification of the Index Writer: two source files are ingested, in    *)
(* any order and any number of times up to MaxRuns, into an empty store.   *)

InitIndex ==
    /\ IdleLate
    /\ IdleAux
    /\ IdleChunk
    /\ IdleSearch
    /\ IdleMerge
    /\ files \in [FileNames -> IndexBodies]
    /\ store = {}
    /\ clock = 0
    /\ prevRun = NoRun
    /\ lastRun = NoRun

\* process_document(file) followed by index_document(document), as
\* reindex_all_documents does for each file
CallIndexDocument(f) ==
    /\ clock < MaxRuns
    /\ LET document == ProcessDocument(f, files[f], clock + 1)
           n == Len(ChunkDocs(document))
       IN  \E failing \in SUBSET (1..n) : \E flushRaises \in BOOLEAN :
              LET r == IndexDocument(store, document, failing, flushRaises)
              IN  /\ store' = r.store
                  /\ lastRun' = [file |-> f, ok |-> r.ok, failing |-> failing,
                                 written |-> r.written, nchunks |-> n,
                                 before |-> StoreCount(store),
                                 after |-> StoreCount(r.store)]
    /\ prevRun' = lastRun
    /\ clock' = clock + 1
    /\ UNCHANGED files
    /\ UNCHANGED <<chunkVars, searchVars, mergeVars, auxVars, lateVars>>

NextIndex == \E f \in FileNames : CallIndexDocument(f)

Spec == InitIndex /\ [][NextIndex]_vars

-----------------------------------------------------------------------------
(* Specification of the Hybrid Retriever: one RAGIntegration instance is   *)
(* constructed, then queried any number of times; every vector-store call  *)
(* may succeed or raise.                                                   *)

InitSearch ==
    /\ IdleLate
    /\ IdleAux
    /\ IdleChunk
    /\ IdleIndex
    /\ IdleMerge
    /\ \E o \in ConstructOutcomes :
          /\ client = Construct(o).client
          /\ weaviate_connected = Construct(o).connected
    /\ mirror \in {"missing", "present"}
    /\ lastOp = "init"
    /\ trace = <<>>
    /\ calls = <<>>
    /\ sem = [status |-> "idle", n |-> 0, schema |-> "unread"]
    /\ result = <<>>

CallSearchDocuments ==
    /\ \E e \in Envs : \E limit \in {KeywordDefaultLimit, ProcessQueryLimit} :
          LET r == SearchDocuments(client, weaviate_connected, e, mirror, limit)
          IN  /\ weaviate_connected' = r.connected
              /\ trace' = r.trace
              /\ calls' = r.calls
              /\ sem' = r.sem
              /\ result' = r.docs
              /\ store_ready' = e.ready
    /\ lastOp' = "search_documents"
    /\ UNCHANGED <<client, mirror>>
    /\ UNCHANGED <<chunkVars, indexVars, mergeVars, auxVars, lateButReady>>

CallProcessQuery ==
    /\ \E e \in Envs :
          LET r == ProcessQuery(client, weaviate_connected, e, mirror)
          IN  /\ weaviate_connected' = r.connected
              /\ trace' = r.trace
              /\ calls' = r.calls
              /\ sem' = r.sem
              /\ result' = r.docs
              /\ store_ready' = e.ready
    /\ lastOp' = "process_query"
    /\ UNCHANGED <<client, mirror>>
    /\ UNCHANGED <<chunkVars, indexVars, mergeVars, auxVars, lateButReady>>

NextSearch == CallSearchDocuments \/ CallProcessQuery

SpecSearch == InitSearch /\ [][NextSearch]_vars

-----------------------------------------------------------------------------
(* Specification of _merge_documents: two candidate lists are drawn, then  *)
(* merged.                                                                 *)

MergeTitles == {1, 2}
MergeCandidates ==
    [title : MergeTitles, origin : {"store", "local"}, kw : {0}, rr : {0}, score : {-1}]

InitMerge ==
    /\ IdleLate
    /\ IdleAux
    /\ IdleChunk
    /\ IdleIndex
    /\ IdleSearch
    /\ primary_docs \in SeqsUpTo(MergeCandidates, MaxListLen)
    /\ secondary_docs \in SeqsUpTo(MergeCandidates, MaxListLen)
    /\ merged_docs = <<>>
    /\ merge_pc = "ready"

CallMergeDocuments ==
    /\ merge_pc = "ready"
    /\ merged_docs' = MergeDocuments(primary_docs, secondary_docs)
    /\ merge_pc' = "merged"
    /\ UNCHANGED <<primary_docs, secondary_docs>>
    /\ UNCHANGED <<chunkVars, indexVars, searchVars, auxVars, lateVars>>

NextMerge == CallMergeDocuments

SpecMerge == InitMerge /\ [][NextMerge]_vars

-----------------------------------------------------------------------------
(* Properties of the Chunk Splitter (checked under SpecChunk) *)

Covered(pos) ==
    \E i \in 1..Len(chunks) :
        /\ chunks[i].start <= pos
        /\ pos < chunks[i].start + Len(chunks[i].content)

ChunkTextsAreBodySlices ==
    \A i \in 1..Len(chunks) :
        chunks[i].content =
            SubSeq(body, chunks[i].start, chunks[i].start + Len(chunks[i].content) - 1)

C2_ConsecutiveChunksShareOverlap ==
    pc = "chunk_document" =>
        \A i \in 1..(Len(chunks) - 2) :
            LET a == chunks[i].content
                b == chunks[i + 1].content
            IN  /\ Len(a) >= overlap
                /\ Len(b) >= overlap
                /\ SubSeq(a, Len(a) - overlap + 1, Len(a)) = SubSeq(b, 1, overlap)

\* C3 as stated: every chunk returned by chunk_document has at most chunk_size
\* characters.
C3_ChunksWithinChunkSize ==
    pc = "chunk_document" =>
        \A i \in 1..Len(chunks) : Len(chunks[i].content) <= chunk_size

\* C4 as stated: for a non-empty body chunk_document_semantic returns at least
\* one chunk, and when no section is detected it returns what fixed-window
\* splitting (with the default arguments) returns.
C4_SemanticNeverEmpty ==
    (pc = "chunk_document_semantic" /\ body # <<>>) =>
        /\ Len(semchunks) >= 1
        /\ Sections(body) = <<>> =>
              LET fixed == ChunkDocument(body, DefaultChunkSize, DefaultOverlap)
              IN  /\ Len(semchunks) = Len(fixed)
                  /\ \A i \in 1..Len(fixed) : semchunks[i].content = fixed[i].content

\* C5 as stated: every non-blank paragraph of the body, header paragraphs
\* included, appears in the content of at least one chunk returned by
\* chunk_document_semantic.
C5_NoParagraphDropped ==
    pc = "chunk_document_semantic" =>
        \A k \in 1..Len(SemanticParagraphs(body)) :
            \E i \in 1..Len(semchunks) :
                IsSubstring(SemanticParagraphs(body)[k], semchunks[i].content)

-----------------------------------------------------------------------------
(* Properties of the Index Writer (checked under Spec) *)

\* a run in which no chunk failed and index_document returned True
CleanRun(r) == r.file # "none" /\ r.ok /\ r.failing = {}

NoDuplicateUuid == \A o1, o2 \in store : o1.uuid = o2.uuid => o1 = o2

\* C6: when the same unchanged file is ingested twice in a row and no write
\* fails, the second run writes exactly the content identifiers of the first,
\* leaves the number of stored objects unchanged, and no two stored objects
\* share an identifier.
C6_ReindexIsIdempotent ==
    (CleanRun(prevRun) /\ CleanRun(lastRun) /\ lastRun.file = prevRun.file) =>
        /\ lastRun.written = prevRun.written
        /\ lastRun.after = lastRun.before
        /\ StoreCount(store) = lastRun.after
        /\ NoDuplicateUuid

\* C6 witness: a file of two chunks was ingested twice in a row without failure.
C6_Witness ==
    /\ CleanRun(prevRun) /\ CleanRun(lastRun)
    /\ lastRun.file = prevRun.file
    /\ lastRun.nchunks >= 2
    /\ Cardinality(lastRun.written) >= 2
    /\ lastRun.before >= 2

\* the distinct chunk bodies of a file, as far as the identifier reads them
DistinctChunkBodies(f) ==
    LET cs == ChunkDocumentSemantic(files[f])
    IN  {Slice(Sanitize(cs[i].content), 0, HashPrefixLen) : i \in 1..Len(cs)}

\* C7: after ingesting, into an empty store and without failure, two files
\* with identical bodies and different names, both runs wrote the same
\* identifiers and the store holds one object per distinct chunk body, not
\* one per file and chunk.
C7_IdenticalBodiesDeduplicated ==
    (/\ CleanRun(prevRun) /\ CleanRun(lastRun)
     /\ lastRun.file # prevRun.file
     /\ files[lastRun.file] = files[prevRun.file]
     /\ prevRun.before = 0) =>
        /\ lastRun.written = prevRun.written
        /\ StoreCount(store) = Cardinality(lastRun.written)
        /\ StoreCount(store) = Cardinality(DistinctChunkBodies(lastRun.file))

\* C7 witness: two differently named files with the same two-chunk body were
\* both ingested without failure.
C7_Witness ==
    /\ CleanRun(prevRun) /\ CleanRun(lastRun)
    /\ lastRun.file # prevRun.file
    /\ files[lastRun.file] = files[prevRun.file]
    /\ prevRun.before = 0
    /\ lastRun.nchunks >= 2
    /\ StoreCount(store) = 2

-----------------------------------------------------------------------------
(* Properties of the Hybrid Retriever (checked under SpecSearch) *)

Range(seq) == {seq[i] : i \in 1..Len(seq)}

\* every vector-store call failed: the client could not be constructed, or
\* every call the operation made on it raised
EveryStoreCallRaised ==
    \/ client = "none"
    \/ /\ calls # <<>>
       /\ \A i \in 1..Len(calls) : calls[i].outcome = "raise"

\* C8: when every call on the vector store client raises, search_documents
\* returns a list that is the result of _local_file_search: the keyword tier
\* is entered and falls through to the local-file tier, whose matches (if the
\* mirror holds matching files) are what is returned.
C8_FallsThroughToLocalFiles ==
    (lastOp = "search_documents" /\ EveryStoreCallRaised) =>
        /\ trace = <<"keyword", "local">>
        /\ result = LocalFileSearch(mirror, KeywordDefaultLimit)
        /\ \A i \in 1..Len(result) : result[i].origin = "local"

\* C8 witness: a constructed, connected client whose is_ready and query calls
\* both raised, with matching files in the mirror.
C8_Witness ==
    /\ lastOp = "search_documents"
    /\ client = "client"
    /\ Len(calls) = 2
    /\ \A i \in 1..Len(calls) : calls[i].outcome = "raise"
    /\ mirror = "present"
    /\ Len(result) = 2

\* C9: in process_query the keyword tier is entered exactly when the semantic
\* tier raised, was skipped or returned fewer than five documents; the
\* semantic tier, when attempted, comes first, and the local-file tier is
\* only entered from the keyword tier.
C9_KeywordTierExactlyOnFallback ==
    lastOp = "process_query" =>
        /\ ("keyword" \in Range(trace)) <=>
              \/ sem.status \in {"raised", "skipped"}
              \/ (sem.status = "returned" /\ sem.n < MinRelevantDocs)
        /\ \A i \in 1..Len(trace) :
              /\ trace[i] = "semantic" => i = 1
              /\ trace[i] = "local" => (i > 1 /\ trace[i - 1] = "keyword")

\* C9 witness: the semantic tier returned five documents and no other tier ran.
C9_Witness ==
    /\ lastOp = "process_query"
    /\ sem.status = "returned"
    /\ sem.n = MinRelevantDocs
    /\ trace = <<"semantic">>
    /\ Len(result) = MinRelevantDocs

-----------------------------------------------------------------------------
(* Properties of _merge_documents (checked under SpecMerge) *)

\* C10 as stated: the merged list holds no two entries with the same title,
\* and for every title present in both lists the entry kept is one of the
\* earlier tier (primary_docs).
C10_MergedTitlesUnique ==
    merge_pc = "merged" =>
        /\ \A i, j \in 1..Len(merged_docs) :
              i # j => merged_docs[i].title # merged_docs[j].title
        /\ \A i \in 1..Len(merged_docs) :
              (/\ \E a \in 1..Len(primary_docs) :
                     primary_docs[a].title = merged_docs[i].title
               /\ \E b \in 1..Len(secondary_docs) :
                     secondary_docs[b].title = merged_docs[i].title)
              => merged_docs[i] \in Range(primary_docs)

-----------------------------------------------------------------------------
(* The vectorizer check of search_documents (checked under SpecSearch) *)

\* replies of client.schema.get() that report no embedding capability for
\* the class Document: the call raised, the class is absent, the class
\* declares "vectorizer": "none", or the class declares no vectorizer at all
NoEmbeddingCapability ==
    sem.schema \in {"raise", "no_class", "vectorizer_none", "no_vectorizer_key"}

\* C11 as stated: whenever the schema reports no embedding capability for the
\* class Document (the class declares no vectorizer at all and an unreadable
\* schema included), the semantic tier is skipped: no near_text query is sent
\* to the store.
C11_SemanticSkippedWithoutVectorizer ==
    (lastOp \in {"search_documents", "process_query"} /\ NoEmbeddingCapability) =>
        /\ \A i \in 1..Len(calls) : calls[i].call # "near_text"
        /\ "semantic" \notin Range(trace)
        /\ sem.status = "skipped"

-----------------------------------------------------------------------------
(* RAGIntegration._expand_query and _is_about_profiles. Queries and        *)
(* expansion terms are strings; Len, SubSeq and \o act on them as on       *)
(* Python strings.                                                         *)

MaxQueryWords == 2   \* most words in a query handed to _expand_query

MaxExpandedQueryLen == 1000

\* self.topic_expansions, in the order the dict is written
topic_expansions ==
    << [topic |-> "perfil", expansions |->
          << "perfis de usuários", "personas", "segmentação de clientes",
             "público-alvo", "comportamento do usuário", "necessidades do cliente",
             "características do usuário", "tipos de clientes", "segmentos de mercado",
             "usuários típicos", "clientes ideais", "target", "demografia" >>],
       [topic |-> "usuário", expansions |->
          << "cliente", "consumidor", "pessoa", "indivíduo", "utilizador",
             "comprador", "público", "audiência", "target", "prospect" >>],
       [topic |-> "discovery", expansions |->
          << "pesquisa", "investigação", "exploração", "análise", "estudo",
             "levantamento", "diagnóstico", "avaliação", "descoberta", "insights" >>],
       [topic |-> "produto", expansions |->
          << "serviço", "solução", "oferta", "aplicativo", "app", "plataforma",
             "ferramenta", "sistema", "funcionalidade", "recurso" >>],
       [topic |-> "stone", expansions |->
          << "ton", "pagar.me", "pagarme", "pagamentos", "maquininha",
             "adquirência", "gateway", "financeiro", "banking", "conta" >>],
       [topic |-> "objetivo", expansions |->
          << "meta", "propósito", "finalidade", "alvo", "intenção",
             "missão", "visão", "estratégia", "plano", "direção" >>],
       [topic |-> "experiência", expansions |->
          << "ux", "ui", "usabilidade", "interface", "interação",
             "jornada", "fluxo", "design", "layout", "navegação" >>],
       [topic |-> "problema", expansions |->
          << "dor", "dificuldade", "desafio", "obstáculo", "barreira",
             "limitação", "restrição", "impedimento", "complicação", "questão" >>],
       [topic |-> "solução", expansions |->
          << "resolução", "resposta", "abordagem", "estratégia", "tática",
             "método", "técnica", "prática", "implementação", "execução" >>],
       [topic |-> "mercado", expansions |->
          << "indústria", "setor", "nicho", "segmento", "área",
             "campo", "domínio", "espaço", "ambiente", "ecossistema" >> ] >>

\* _is_about_profiles: profile_terms
profile_terms ==
    << "perfil", "perfis", "usuário", "usuários", "cliente", "clientes",
       "persona", "personas", "segmentação", "público-alvo", "target" >>

\* _expand_query: the terms added for queries about profiles
profile_expansions ==
    << "quem são os usuários", "quais são os perfis", "tipos de usuários",
       "segmentos de clientes", "características dos usuários", "comportamento dos clientes",
       "necessidades dos usuários", "personas identificadas", "público-alvo definido",
       "segmentação de mercado", "perfil demográfico", "perfis já identificados",
       "usuários conhecidos", "personas existentes", "segmentos definidos",
       "clientes atuais", "base de usuários" >>

\* str.lower() on one character
UpperLetters == "ABCDEFGHIJKLMNOPQRSTUVWXYZÁÃÇÉÊÍÓÕÚ"
LowerLetters == "abcdefghijklmnopqrstuvwxyzáãçéêíóõú"
UpperChars == {SubSeq(UpperLetters, i, i) : i \in 1..Len(UpperLetters)}
LowerOf ==
    [c \in UpperChars |->
        LET i == CHOOSE k \in 1..Len(UpperLetters) : SubSeq(UpperLetters, k, k) = c
        IN  SubSeq(LowerLetters, i, i)]
LowerChar(c) == IF c \in UpperChars THEN LowerOf[c] ELSE c

\* str.lower() on s[i..j] (1-based, inclusive)
RECURSIVE LowerRange(_, _, _)
LowerRange(s, i, j) ==
    IF i > j THEN ""
    ELSE IF i = j THEN LowerChar(SubSeq(s, i, i))
    ELSE LET m == (i + j) \div 2
         IN  LowerRange(s, i, m) \o LowerRange(s, m + 1, j)

Lower(s) == LowerRange(s, 1, Len(s))

\* the characters the pattern \w matches
WordChars ==
    UpperChars \cup
    {SubSeq(LowerLetters, i, i) : i \in 1..Len(LowerLetters)} \cup
    {"0", "1", "2", "3", "4", "5", "6", "7", "8", "9", "_"}

\* re.findall(r'\w+', s): the maximal runs of word characters, left to right
FindWords(s) ==
    LET wc(i) == SubSeq(s, i, i) \in WordChars
        starts == {i \in 1..Len(s) : wc(i) /\ (i = 1 \/ ~wc(i - 1))}
        ends == {j \in 1..Len(s) : wc(j) /\ (j = Len(s) \/ ~wc(j + 1))}
        nth(n) == CHOOSE i \in starts : Cardinality({k \in starts : k < i}) = n - 1
        endOf(i) == CHOOSE j \in ends : j >= i /\ \A k \in ends : k >= i => j <= k
    IN  [n \in 1..Cardinality(starts) |-> SubSeq(s, nth(n), endOf(nth(n)))]

\* _is_about_profiles(query)
is_about_profiles(q) ==
    LET query_lower == Lower(q)
    IN  \E i \in 1..Len(profile_terms) : IsSubstring(profile_terms[i], query_lower)

\* _expand_query: query_words
QueryWords(q) == SelectSeq(FindWords(Lower(q)), LAMBDA word : Len(word) > 3)

\* _expand_query: `if word in topic or topic in word`
TopicApplies(word, topic) == IsSubstring(word, topic) \/ IsSubstring(topic, word)

\* _expand_query: the expansions one word brings, topic by topic
RECURSIVE WordExpansions(_, _)
WordExpansions(word, k) ==
    IF k > Len(topic_expansions) THEN <<>>
    ELSE (IF TopicApplies(word, topic_expansions[k].topic)
          THEN topic_expansions[k].expansions ELSE <<>>)
         \o WordExpansions(word, k + 1)

\* _expand_query: expanded_terms
RECURSIVE TermsOfWords(_, _)
TermsOfWords(words, k) ==
    IF k > Len(words) THEN <<>>
    ELSE WordExpansions(words[k], 1) \o TermsOfWords(words, k + 1)

ExpandedTerms(q) ==
    TermsOfWords(QueryWords(q), 1)
    \o (IF is_about_profiles(q) THEN profile_expansions ELSE <<>>)

\* _expand_query: unique_expansions (first occurrence kept, order kept)
RECURSIVE UniqueExpansions(_, _, _)
UniqueExpansions(terms, seen, acc) ==
    IF terms = <<>> THEN acc
    ELSE IF Head(terms) \in seen THEN UniqueExpansions(Tail(terms), seen, acc)
    ELSE UniqueExpansions(Tail(terms), seen \cup {Head(terms)}, Append(acc, Head(terms)))

\* ' '.join(parts)
RECURSIVE JoinSpace(_)
JoinSpace(parts) ==
    IF parts = <<>> THEN ""
    ELSE IF Len(parts) = 1 THEN parts[1]
    ELSE parts[1] \o " " \o JoinSpace(Tail(parts))

\* a plausible slip: the original query is left out of the expanded string
JoinedExpansionWithoutQuery(q, unique_expansions) == JoinSpace(unique_expansions)

\* _expand_query: f"{query} {' '.join(unique_expansions)}"
JoinedExpansion(q, unique_expansions) == q \o " " \o JoinSpace(unique_expansions)

\* the expanded string before the length limit is applied
UncappedExpansion(q) ==
    JoinedExpansion(q, UniqueExpansions(ExpandedTerms(q), {}, <<>>))

\* _expand_query(query)
ExpandQuery(q) ==
    IF ExpandedTerms(q) # <<>>
    THEN LET joined == UncappedExpansion(q)
         IN  IF Len(joined) > MaxExpandedQueryLen
             THEN Slice(joined, 0, MaxExpandedQueryLen)
             ELSE joined
    ELSE q

-----------------------------------------------------------------------------
(* Specification of _expand_query: a query is drawn, then expanded. *)

FillerLen == 950     \* length of the long word queries may contain

\* s repeated n times
RECURSIVE Repeat(_, _)
Repeat(s, n) ==
    IF n = 0 THEN ""
    ELSE LET half == Repeat(s, n \div 2)
         IN  half \o half \o (IF n % 2 = 1 THEN s ELSE "")

\* the words queries are made of: keys of the expansion table, a key in
\* upper case, a fragment of a key, a word containing a key, a short word, a
\* word no topic applies to, and a long word no topic applies to
QueryVocabulary ==
    {"perfil", "stone", "usuário", "mercado", "Perfil", "perf", "produtos",
     "app", "xyzw", Repeat("a", FillerLen)}

Queries == {JoinSpace(ws) : ws \in SeqsUpTo(QueryVocabulary, MaxQueryWords)}

InitExpand ==
    /\ IdleLate
    /\ IdleChunk
    /\ IdleIndex
    /\ IdleSearch
    /\ IdleMerge
    /\ IdleRerank
    /\ IdleIngest
    /\ IdleDetect
    /\ IdleContext
    /\ query \in Queries
    /\ expanded_query = ""
    /\ expand_pc = "ready"

CallExpandQuery ==
    /\ expand_pc = "ready"
    /\ expanded_query' = ExpandQuery(query)
    /\ expand_pc' = "expanded"
    /\ UNCHANGED query
    /\ UNCHANGED <<coreVars, rerankVars, ingestVars, detectVars, contextVars, lateVars>>

NextExpand == CallExpandQuery

SpecExpand == InitExpand /\ [][NextExpand]_vars

-----------------------------------------------------------------------------
(* Properties of _expand_query (checked under SpecExpand) *)

\* the keys of the expansion table that are a token of the query
KeysInQuery ==
    LET words == FindWords(query)
    IN  {k \in 1..Len(topic_expansions) :
            \E n \in 1..Len(words) : words[n] = topic_expansions[k].topic}

\* the returned string contains the query and every expansion term of key k
ContainsExpansionsOf(k) ==
    /\ IsSubstring(query, expanded_query)
    /\ \A t \in 1..Len(topic_expansions[k].expansions) :
          IsSubstring(topic_expansions[k].expansions[t], expanded_query)

\* C12 as stated: for every query that contains a token equal to a key of
\* the expansion table, the returned string contains the original query and
\* every expansion term configured for that key.
C12_ContainsEveryExpansion ==
    expand_pc = "expanded" => \A k \in KeysInQuery : ContainsExpansionsOf(k)

\* C12 amended: the returned string is the first 1000 characters of the
\* query followed by the expansion terms, so it contains the original query
\* and every expansion term of the key whenever the query followed by its
\* expansion terms has at most 1000 characters.
C12_ContainsEveryExpansionWithinLimit ==
    expand_pc = "expanded" =>
        /\ KeysInQuery # {} =>
              expanded_query = Slice(UncappedExpansion(query), 0, MaxExpandedQueryLen)
        /\ Len(UncappedExpansion(query)) <= MaxExpandedQueryLen =>
              \A k \in KeysInQuery : ContainsExpansionsOf(k)

\* C12 witness: a query of two words, one of them a key, expanded within
\* the limit.
C12_Witness ==
    /\ expand_pc = "expanded"
    /\ KeysInQuery # {}
    /\ Len(FindWords(query)) = 2
    /\ Len(expanded_query) > Len(query)
    /\ Len(expanded_query) < MaxExpandedQueryLen

\* C13 as stated: for every query, whether or not any expansion term
\* applies, the returned string has at most 1000 characters.
C13_ExpandedQueryWithinLimit ==
    expand_pc = "expanded" => Len(expanded_query) <= MaxExpandedQueryLen

-----------------------------------------------------------------------------
(* RAGIntegration._rerank_documents, on documents with string fields *)

MaxRerankDocs == 2    \* longest candidate list handed to _rerank_documents
TermRepeats == 28     \* repetitions of a query term in the longest body

TitleTermWeight == 10
ContentTermWeight == 2
ExactMatchWeight == 50
ProfileContextWeight == 30
TopicContextWeight == 20
KeywordWeight == 15

\* str.split(): the maximal runs of non-whitespace characters
SplitWhitespace(s) ==
    LET nw(i) == SubSeq(s, i, i) \notin Whitespace
        starts == {i \in 1..Len(s) : nw(i) /\ (i = 1 \/ ~nw(i - 1))}
        ends == {j \in 1..Len(s) : nw(j) /\ (j = Len(s) \/ ~nw(j + 1))}
        nth(n) == CHOOSE i \in starts : Cardinality({k \in starts : k < i}) = n - 1
        endOf(i) == CHOOSE j \in ends : j >= i /\ \A k \in ends : k >= i => j <= k
    IN  [n \in 1..Cardinality(starts) |-> SubSeq(s, nth(n), endOf(nth(n)))]

\* str.count(term) from position i: non-overlapping occurrences, left to right
RECURSIVE CountFrom(_, _, _)
CountFrom(term, s, i) ==
    IF i + Len(term) - 1 > Len(s) THEN 0
    ELSE IF SubSeq(s, i, i + Len(term) - 1) = term
         THEN 1 + CountFrom(term, s, i + Len(term))
         ELSE CountFrom(term, s, i + 1)

Count(term, s) == CountFrom(term, s, 1)

\* sum of f over a finite set
RECURSIVE SumOver(_, _)
SumOver(S, f) ==
    IF S = {} THEN 0
    ELSE LET x == CHOOSE y \in S : TRUE IN f[x] + SumOver(S \ {x}, f)

\* sum of the entries of a sequence of numbers
RECURSIVE SumSeq(_)
SumSeq(ns) == IF ns = <<>> THEN 0 ELSE Head(ns) + SumSeq(Tail(ns))

\* _rerank_documents: the score of one document
RerankScore(doc, q) ==
    LET query_terms == Range(SplitWhitespace(Lower(q)))
        query_lower == Lower(q)
        is_profile_query == is_about_profiles(q)
        content == Lower(doc.content)
        title == Lower(doc.title)
        titleScore ==
            TitleTermWeight * Cardinality({t \in query_terms : IsSubstring(t, title)})
        contentScore ==
            ContentTermWeight * SumOver(query_terms, [t \in query_terms |-> Count(t, content)])
        exactScore == IF IsSubstring(query_lower, content) THEN ExactMatchWeight ELSE 0
        profileScore ==
            IF is_profile_query
            THEN SumSeq([i \in 1..Len(profile_terms) |-> Count(profile_terms[i], content)])
            ELSE 0
        contextScore ==
            IF doc.semantic_context = "" THEN 0
            ELSE IF is_profile_query /\ IsSubstring("perfil", doc.semantic_context)
            THEN ProfileContextWeight
            ELSE IF \E t \in query_terms : IsSubstring(t, doc.semantic_context)
            THEN TopicContextWeight
            ELSE 0
        keywordScore ==
            KeywordWeight *
            Cardinality({i \in 1..Len(doc.keywords) :
                            IsSubstring(Lower(doc.keywords[i]), query_lower)})
    IN  titleScore + contentScore + exactScore + profileScore + contextScore + keywordScore

\* _rerank_documents(documents, query)
RerankByScore(docs, q) ==
    LET scored_docs == [i \in 1..Len(docs) |-> [doc |-> docs[i], score |-> RerankScore(docs[i], q)]]
        sorted == SortDesc(scored_docs, "score")
    IN  [i \in 1..Len(sorted) |-> sorted[i].doc]

-----------------------------------------------------------------------------
(* Specification of _rerank_documents: a query and a candidate list are    *)
(* drawn, then the list is reranked.                                       *)

RerankQueries == {"ab cd", "perfil ab"}

RerankCandidates ==
    [title : {"t", "ab cd"},
     content : {"ab cd", "cd", "AB CD perfil", Repeat("ab ", TermRepeats)},
     semantic_context : {"", "ab"},
     keywords : {<<>>, <<"ab", "cd", "b", "c">>}]

InitRerank ==
    /\ IdleLate
    /\ IdleChunk
    /\ IdleIndex
    /\ IdleSearch
    /\ IdleMerge
    /\ IdleExpand
    /\ IdleIngest
    /\ IdleDetect
    /\ IdleContext
    /\ rerank_query \in RerankQueries
    /\ documents \in SeqsUpTo(RerankCandidates, MaxRerankDocs)
    /\ reranked = <<>>
    /\ rerank_pc = "ready"

CallRerankDocuments ==
    /\ rerank_pc = "ready"
    /\ reranked' = IF documents = <<>> THEN <<>> ELSE RerankByScore(documents, rerank_query)
    /\ rerank_pc' = "reranked"
    /\ UNCHANGED <<rerank_query, documents>>
    /\ UNCHANGED <<coreVars, expandVars, ingestVars, detectVars, contextVars, lateVars>>

NextRerank == CallRerankDocuments

SpecRerank == InitRerank /\ [][NextRerank]_vars

-----------------------------------------------------------------------------
(* Properties of _rerank_documents (checked under SpecRerank) *)

ExactMatch(doc) == IsSubstring(rerank_query, doc.content)

\* C14 as stated: whenever one chunk's body contains the exact query string
\* and another chunk's body does not, the exact-match chunk gets a score at
\* least as high as the other chunk and is placed at or above it in the
\* returned order.
C14_ExactMatchRankedFirst ==
    rerank_pc = "reranked" =>
        \A i, j \in 1..Len(reranked) :
            (ExactMatch(reranked[i]) /\ ~ExactMatch(reranked[j])) =>
                /\ RerankScore(reranked[i], rerank_query) >= RerankScore(reranked[j], rerank_query)
                /\ i < j

-----------------------------------------------------------------------------
(* DocumentIngestor as an instance: construction, process_document,        *)
(* index_document, reindex_all_documents, and the delete route of the      *)
(* documents API.                                                          *)

\* DocumentIngestor.__init__ and _ensure_schema_exists: weaviate.Client(...)
\* is not guarded, and _ensure_schema_exists logs and re-raises
ConstructEnvs ==
    [client : {"ok", "raise"},
     schema_get : {"raise", "has_class", "no_class"},
     create_class : {"ok", "raise"}]

EnsureSchemaExists(e) ==
    IF e.schema_get = "raise" THEN "raised"
    ELSE IF e.schema_get = "no_class" /\ e.create_class = "raise" THEN "raised"
    ELSE "returned"

ConstructIngestor(e) ==
    IF e.client = "raise" THEN "raised" ELSE EnsureSchemaExists(e)

\* the text a failed extraction leaves in the document: one paragraph that
\* is not a header
ErrorStub == <<"a", "a">>

\* process_document(file_path) for the files of the directory: a missing
\* file, an unsupported extension and a failed read each give a document
\* whose content records the error
ProcessFile(f, kind, content, now) ==
    IF kind = "text" THEN ProcessDocument(f, content, now)
    ELSE [title |-> f, content |-> ErrorStub,
          metadata |-> [file_path |-> "", processed_at |-> 0]]

\* bodies of the files of the directory: one paragraph, or five paragraphs
\* that make three sections
IngestBodies ==
    {Join(<< <<"a">> >>),
     Join(<< <<"a">>, <<"A">>, <<"a", "a">>, <<"A">>, <<"a">> >>)}

InitIngest ==
    /\ IdleLate
    /\ IdleChunk
    /\ IdleSearch
    /\ IdleMerge
    /\ IdleExpand
    /\ IdleRerank
    /\ IdleDetect
    /\ IdleContext
    /\ files \in [FileNames -> IngestBodies]
    /\ store = {}
    /\ clock = 0
    /\ prevRun = NoRun
    /\ lastRun = NoRun
    /\ ingestor = "none"
    /\ kinds \in [FileNames -> {"text", "unreadable"}]
    /\ documents_db = FileNames
    /\ call = [op |-> "none"]

NewIngestor ==
    /\ ingestor = "none"
    /\ \E e \in ConstructEnvs :
          /\ call' = [op |-> "DocumentIngestor", outcome |-> ConstructIngestor(e)]
          /\ ingestor' = IF ConstructIngestor(e) = "returned" THEN "ready" ELSE "none"
    /\ UNCHANGED <<kinds, documents_db>>
    /\ UNCHANGED <<coreVars, expandVars, rerankVars, detectVars, contextVars, lateVars>>

CallProcessFile(f) ==
    /\ ingestor = "ready"
    /\ clock < MaxRuns
    /\ call' = [op |-> "process_document", outcome |-> "returned",
                value |-> ProcessFile(f, kinds[f], files[f], clock + 1)]
    /\ clock' = clock + 1
    /\ UNCHANGED <<ingestor, kinds, documents_db>>
    /\ UNCHANGED <<files, store, prevRun, lastRun>>
    /\ UNCHANGED <<chunkVars, searchVars, mergeVars, expandVars, rerankVars, detectVars, contextVars, lateVars>>

\* index_document(process_document(f))
CallIndexFile(f) ==
    /\ ingestor = "ready"
    /\ clock < MaxRuns
    /\ LET document == ProcessFile(f, kinds[f], files[f], clock + 1)
           n == Len(ChunkDocs(document))
       IN  \E failing \in SUBSET (1..n) : \E flushRaises \in BOOLEAN :
              LET r == IndexDocument(store, document, failing, flushRaises)
              IN  /\ store' = r.store
                  /\ call' = [op |-> "index_document", outcome |-> "returned",
                              value |-> r.ok, document |-> document,
                              failing |-> failing, handed |-> r.handed]
    /\ clock' = clock + 1
    /\ UNCHANGED <<ingestor, kinds, documents_db>>
    /\ UNCHANGED <<files, prevRun, lastRun>>
    /\ UNCHANGED <<chunkVars, searchVars, mergeVars, expandVars, rerankVars, detectVars, contextVars, lateVars>>

\* os.listdir(data_dir) for the directory data/raw: two text files, one
\* subdirectory and one file with an unsupported extension; a removed file
\* is no longer listed
DirectoryEntries == <<"f1.txt", "archive", "f3.bin", "f2.txt">>

\* the entries for which os.path.isfile is False
Directories == {"archive"}
Listing(ks) ==
    SelectSeq(DirectoryEntries, LAMBDA f : f \notin FileNames \/ ks[f] # "removed")

\* the data_dir arguments of reindex_all_documents: the directory, a path
\* that does not exist, and a path that is a regular file (os.listdir raises)
DataDirs == {"data/raw", "missing", "a_file"}

\* what may go wrong while one file of the directory is indexed: no chunk
\* or the second chunk fails, and the batch raises or not when it is flushed
IndexChoices == [failing : {{}, {2}}, flushRaises : BOOLEAN]

\* reindex_all_documents: one pass of the loop body, for directory entry f.
\* What index_document hands to the batch and what it returns do not depend
\* on the objects already stored.
ReindexOne(f, ks, env) ==
    IF f \in Directories
    THEN [file |-> f, result |-> "not_a_file", objs |-> <<>>, failing |-> {}]
    ELSE IF f \notin FileNames
    THEN [file |-> f, result |-> "skipped", objs |-> <<>>, failing |-> {}]
    ELSE LET document == ProcessFile(f, ks[f], env.files[f], env.now)
             n == Len(ChunkDocs(document))
             r == IndexDocument(env.store, document, env.choice[f].failing \cap (1..n),
                                env.choice[f].flushRaises)
             failing == env.choice[f].failing \cap (1..n)
         IN  IF r.ok
             THEN [file |-> f, result |-> "success", objs |-> r.handed,
                   failing |-> failing]
             ELSE [file |-> f, result |-> "failed", objs |-> <<>>,
                   failing |-> failing]

\* a plausible slip: a file whose indexing fails ends the loop
RECURSIVE ReindexLoopStopOnFailure(_, _, _, _)
ReindexLoopStopOnFailure(entries, k, ks, env) ==
    IF k > Len(entries) THEN <<>>
    ELSE LET one == ReindexOne(entries[k], ks, env)
         IN  <<one>> \o (IF one.result = "failed" THEN <<>>
                         ELSE ReindexLoopStopOnFailure(entries, k + 1, ks, env))

\* reindex_all_documents: the loop over the directory listing, as the
\* sequence of what each entry came to
RECURSIVE ReindexLoop(_, _, _, _)
ReindexLoop(entries, k, ks, env) ==
    IF k > Len(entries) THEN <<>>
    ELSE <<ReindexOne(entries[k], ks, env)>> \o ReindexLoop(entries, k + 1, ks, env)

RECURSIVE Flatten(_)
Flatten(seqs) == IF seqs = <<>> THEN <<>> ELSE Head(seqs) \o Flatten(Tail(seqs))

NoStats == [success |-> 0, failed |-> 0, skipped |-> 0]

\* a plausible slip: an entry that is not a regular file counts as skipped
SkippedCountEveryOtherEntry(passes) ==
    Cardinality({i \in 1..Len(passes) : passes[i].result \in {"skipped", "not_a_file"}})

\* stats["skipped"] += 1 for each regular file with an unsupported extension
SkippedCount(passes) ==
    Cardinality({i \in 1..Len(passes) : passes[i].result = "skipped"})

\* stats[...] += 1 for each entry
Stats(passes) ==
    [success |-> Cardinality({i \in 1..Len(passes) : passes[i].result = "success"}),
     failed |-> Cardinality({i \in 1..Len(passes) : passes[i].result = "failed"}),
     skipped |-> SkippedCount(passes)]

\* reindex_all_documents(data_dir), given what each pass of its loop came to
ReindexAllDocuments(data_dir, st, passes) ==
    IF data_dir = "missing"
    THEN [outcome |-> "returned", store |-> st, stats |-> NoStats, visited |-> <<>>,
          results |-> <<>>]
    ELSE IF data_dir = "a_file"
    THEN [outcome |-> "raised", store |-> st, stats |-> NoStats, visited |-> <<>>,
          results |-> <<>>]
    ELSE LET processed == SelectSeq(passes, LAMBDA p : p.result \in {"success", "failed"})
         IN  [outcome |-> "returned",
              results |-> [i \in 1..Len(passes) |->
                              [file |-> passes[i].file, result |-> passes[i].result,
                               failing |-> passes[i].failing]],
              store |-> WriteAll(st, Flatten([i \in 1..Len(passes) |-> passes[i].objs])),
              stats |-> Stats(passes),
              visited |-> [i \in 1..Len(processed) |-> processed[i].file]]

CallReindexAllDocuments ==
    /\ ingestor = "ready"
    /\ clock < MaxRuns
    /\ \E data_dir \in DataDirs : \E choice \in [FileNames -> IndexChoices] :
          LET env == [files |-> files, store |-> store, now |-> clock + 1, choice |-> choice]
          IN  \E passes \in {ReindexLoop(Listing(kinds), 1, kinds, env)} :
              \E r \in {ReindexAllDocuments(data_dir, store, passes)} :
                 /\ store' = r.store
                 /\ call' = [op |-> "reindex_all_documents", outcome |-> r.outcome,
                             data_dir |-> data_dir, value |-> r.stats,
                             visited |-> r.visited, listing |-> Listing(kinds),
                             results |-> r.results,
                             flushRaised |-> {f \in FileNames : choice[f].flushRaises}]
    /\ clock' = clock + 1
    /\ UNCHANGED <<ingestor, kinds, documents_db>>
    /\ UNCHANGED <<files, prevRun, lastRun>>
    /\ UNCHANGED <<chunkVars, searchVars, mergeVars, expandVars, rerankVars, detectVars, contextVars, lateVars>>

\* the characters of a string, as a sequence
Chars(s) == [i \in 1..Len(s) |-> SubSeq(s, i, i)]

\* routes.py: document_id = str(uuid.uuid5(uuid.NAMESPACE_DNS, file_path))
DocumentId(f) == <<"uuid5", Chars("data/raw/" \o f)>>

\* client.data_object.delete(class_name="Document", uuid=document_id)
DeleteObject(st, id) == {o \in st : o.uuid # id}

\* the chunks of file f in the store
ChunksOf(st, f) == {o \in st : o.file_path = f}

DeleteEnvs ==
    [remove : {"ok", "raise"}, is_ready : {"true", "false", "raise"},
     delete : {"ok", "raise"}]

\* DELETE /documents/{document_id}, for the document id of file f
DeleteDocument(f, db, st, ks, e) ==
    IF f \notin db
    THEN [outcome |-> "http_404", db |-> db, store |-> st, kinds |-> ks]
    ELSE IF ks[f] # "removed" /\ e.remove = "raise"
    THEN [outcome |-> "http_500", db |-> db, store |-> st, kinds |-> ks]
    ELSE [outcome |-> "success", db |-> db \ {f},
          store |-> IF e.is_ready = "true" /\ e.delete = "ok"
                    THEN DeleteObject(st, DocumentId(f)) ELSE st,
          kinds |-> [ks EXCEPT ![f] = "removed"]]

CallDeleteDocument(f) ==
    /\ ingestor = "ready"
    /\ clock < MaxRuns
    /\ \E e \in DeleteEnvs :
          LET r == DeleteDocument(f, documents_db, store, kinds, e)
          IN  /\ documents_db' = r.db
              /\ store' = r.store
              /\ kinds' = r.kinds
              /\ call' = [op |-> "delete_document", outcome |-> r.outcome, file |-> f,
                          indexed |-> ChunksOf(store, f) # {},
                          deleteSent |-> (r.outcome = "success" /\ e.is_ready = "true"),
                          deleteRaised |-> e.delete = "raise"]
    /\ clock' = clock + 1
    /\ UNCHANGED ingestor
    /\ UNCHANGED <<files, prevRun, lastRun>>
    /\ UNCHANGED <<chunkVars, searchVars, mergeVars, expandVars, rerankVars, detectVars, contextVars, lateVars>>

NextIngest ==
    \/ NewIngestor
    \/ \E f \in FileNames : CallProcessFile(f)
    \/ \E f \in FileNames : CallIndexFile(f)
    \/ CallReindexAllDocuments
    \/ \E f \in FileNames : CallDeleteDocument(f)

SpecIngest == InitIngest /\ [][NextIngest]_vars


\* C15: no public operation raises across its boundary: constructing
\* DocumentIngestor, process_document, index_document and
\* reindex_all_documents each return a structured result in every execution
C15_NoOperationRaises ==
    call.op \in {"DocumentIngestor", "process_document", "index_document",
                 "reindex_all_documents"} => call.outcome = "returned"

\* the positions of the chunks of a document whose preparation and write
\* did not fail, in increasing order
KeptPositions(n, failing) ==
    SelectSeq([i \in 1..n |-> i], LAMBDA i : i \notin failing)

\* C16: in index_document a failure on one chunk does not abort the batch:
\* every other chunk of the document is still handed to the store, in
\* document order, and index_document returns
C16_OtherChunksStillHanded ==
    call.op = "index_document" =>
        LET cks == ChunkDocs(call.document)
            kept == KeptPositions(Len(cks), call.failing)
        IN  /\ call.outcome = "returned"
            /\ call.handed = [j \in 1..Len(kept) |-> DataObject(cks[kept[j]])]

C16_Witness ==
    /\ call.op = "index_document"
    /\ Len(ChunkDocs(call.document)) = 3
    /\ call.failing = {2}
    /\ Len(call.handed) = 2

\* C17: one bad file never aborts a batch run: for the directory,
\* reindex_all_documents visits every supported file listed, in listing
\* order, whichever of them fail, and returns counts that cover every entry
C17_BadFileDoesNotAbortRun ==
    (call.op = "reindex_all_documents" /\ call.data_dir = "data/raw") =>
        LET supported == SelectSeq(call.listing, LAMBDA f : f \in FileNames)
        IN  /\ call.outcome = "returned"
            /\ call.visited = supported
            /\ call.value.success + call.value.failed = Len(supported)
            /\ call.value.skipped =
                   Cardinality({i \in 1..Len(call.listing) :
                                   call.listing[i] \notin FileNames \cup Directories})
            /\ call.value.failed =
                   Cardinality({i \in 1..Len(supported) : supported[i] \in call.flushRaised})

C17_Witness ==
    /\ call.op = "reindex_all_documents"
    /\ call.data_dir = "data/raw"
    /\ call.visited = <<"f1.txt", "f2.txt">>
    /\ call.flushRaised = {"f1.txt"}
    /\ call.value = [success |-> 1, failed |-> 1, skipped |-> 1]
    /\ ChunksOf(store, "f2.txt") # {}

\* C20: after delete_document succeeds for a document that was indexed,
\* none of that document's chunks remains in the vector store
C20_DeletedDocumentLeavesNoChunk ==
    (call.op = "delete_document" /\ call.outcome = "success" /\ call.indexed) =>
        ChunksOf(store, call.file) = {}


-----------------------------------------------------------------------------
(* DocumentIngestor.detect_semantic_context(text): the label of a chunk.   *)

MaxTextWords == 2   \* most phrases in a text handed to detect_semantic_context

\* the parts a profile pattern is made of: a literal with its alternatives,
\* \s+, and a character class
Lit(alts) == [kind |-> "lit", alts |-> alts]
Spaces == [kind |-> "spaces", alts |-> Whitespace]
Class(chars) == [kind |-> "class", alts |-> chars]

\* w followed by s?
Opt(w) == {w, w \o "s"}

UsersOrClients == {"usuário", "usuários", "cliente", "clientes"}
OfThe == {"do", "dos", "da", "das"}

\* perfil_patterns, in lower case (every pattern carries (?i))
perfil_patterns ==
    << <<Lit(Opt("perfi")), Spaces, Lit({"de"}), Spaces, Lit(Opt("usuário"))>>,
       <<Lit(Opt("persona"))>>,
       <<Lit({"segmentação", "segmentaçao", "segmentacão", "segmentacao"}), Spaces,
         Lit({"de"}), Spaces, Lit(UsersOrClients)>>,
       <<Lit(Opt("público")), Class(Whitespace \cup {"-"}), Lit(Opt("alvo"))>>,
       <<Lit(Opt("tipo")), Spaces, Lit({"de"}), Spaces, Lit(UsersOrClients)>>,
       <<Lit({"característica", "características", "caracteristica", "caracteristicas"}),
         Spaces, Lit(OfThe), Spaces, Lit(UsersOrClients)>>,
       <<Lit(Opt("comportamento")), Spaces, Lit(OfThe), Spaces, Lit(UsersOrClients)>> >>

\* the parts k.. of pattern p match s from position pos on
RECURSIVE MatchFrom(_, _, _, _)
MatchFrom(p, k, s, pos) ==
    IF k > Len(p) THEN TRUE
    ELSE IF p[k].kind = "lit"
    THEN \E a \in p[k].alts :
            /\ pos + Len(a) - 1 <= Len(s)
            /\ SubSeq(s, pos, pos + Len(a) - 1) = a
            /\ MatchFrom(p, k + 1, s, pos + Len(a))
    ELSE IF p[k].kind = "spaces"
    THEN \E n \in 1..(Len(s) - pos + 1) :
            /\ \A i \in pos..(pos + n - 1) : SubSeq(s, i, i) \in p[k].alts
            /\ MatchFrom(p, k + 1, s, pos + n)
    ELSE /\ pos <= Len(s)
         /\ SubSeq(s, pos, pos) \in p[k].alts
         /\ MatchFrom(p, k + 1, s, pos + 1)

\* re.search(pattern, s) finds a match, for a pattern with (?i)
Search(p, s) ==
    \E pos \in 1..(Len(Lower(s)) + 1) : MatchFrom(p, 1, Lower(s), pos)

\* the dict contexts, in insertion order
contexts ==
    << [context |-> "pesquisa",
        terms |-> {"pesquisa", "entrevista", "survey", "questionário", "estudo"}],
       [context |-> "produto",
        terms |-> {"produto", "feature", "funcionalidade", "recurso", "serviço"}],
       [context |-> "metricas",
        terms |-> {"métrica", "kpi", "indicador", "performance", "desempenho"}],
       [context |-> "estrategia",
        terms |-> {"estratégia", "objetivo", "meta", "visão", "missão"}],
       [context |-> "tecnologia",
        terms |-> {"tecnologia", "sistema", "plataforma", "software", "aplicativo"}] >>

\* "_".join(parts)
RECURSIVE JoinUnderscore(_)
JoinUnderscore(parts) ==
    IF parts = <<>> THEN ""
    ELSE IF Len(parts) = 1 THEN parts[1]
    ELSE parts[1] \o "_" \o JoinUnderscore(Tail(parts))

\* the contexts one of whose terms occurs in text.lower(), in dict order
DetectedContexts(s) ==
    LET hits == SelectSeq(contexts, LAMBDA c : \E t \in c.terms : IsSubstring(t, Lower(s)))
    IN  [i \in 1..Len(hits) |-> hits[i].context]

\* detect_semantic_context(text)
DetectSemanticContext(s) ==
    IF \E i \in 1..Len(perfil_patterns) : Search(perfil_patterns[i], s)
    THEN "perfil_usuario"
    ELSE IF DetectedContexts(s) # <<>>
    THEN JoinUnderscore(DetectedContexts(s))
    ELSE "geral"

\* the phrases texts are made of: phrases a profile pattern matches (one in
\* upper case, one with two blanks), the start of such a phrase, terms of
\* four of the contexts, and words of no group
TextVocabulary ==
    {"personas", "Perfis de Usuários", "público-alvo", "tipos  de clientes",
     "perfil de", "pesquisa", "Produto", "kpi", "sistema", "estudo", "xyz", "alvo"}

Texts == {JoinSpace(ws) : ws \in SeqsUpTo(TextVocabulary, MaxTextWords)}

InitDetect ==
    /\ IdleLate
    /\ IdleChunk
    /\ IdleIndex
    /\ IdleSearch
    /\ IdleMerge
    /\ IdleExpand
    /\ IdleRerank
    /\ IdleIngest
    /\ IdleContext
    /\ text \in Texts
    /\ context_label = ""
    /\ detect_pc = "ready"

CallDetectSemanticContext ==
    /\ detect_pc = "ready"
    /\ context_label' = DetectSemanticContext(text)
    /\ detect_pc' = "detected"
    /\ UNCHANGED text
    /\ UNCHANGED <<coreVars, expandVars, rerankVars, ingestVars, contextVars, lateVars>>

NextDetect == CallDetectSemanticContext

SpecDetect == InitDetect /\ [][NextDetect]_vars

\* the labels of all six groups that match the text, in group order
MatchingGroups(s) ==
    (IF \E i \in 1..Len(perfil_patterns) : Search(perfil_patterns[i], s)
     THEN <<"perfil_usuario">> ELSE <<>>) \o DetectedContexts(s)

\* C18: detect_semantic_context tests the text against every group: the label
\* is the concatenation of the labels of all matching groups, in group order,
\* and the general label when no group matches
C18_LabelOfEveryMatchingGroup ==
    detect_pc = "detected" =>
        context_label = IF MatchingGroups(text) = <<>> THEN "geral"
                        ELSE JoinUnderscore(MatchingGroups(text))


-----------------------------------------------------------------------------
(* RAGIntegration._build_rag_context(documents, query): the context string *)
(* handed to the language model.                                           *)

MaxFillers == 10          \* most plain documents between the first and the last one

MaxContextDocs == 10      \* min(10, len(documents))
MaxContentLength == 1000  \* max_content_length

\* doc.get(key, default)
DictGet(doc, key, default) == IF key \in DOMAIN doc THEN doc[key] ELSE default

\* str(n) for n >= 0, as the f-string renders it
DigitChars == "0123456789"
RECURSIVE Str(_)
Str(n) ==
    IF n < 10 THEN SubSeq(DigitChars, n + 1, n + 1)
    ELSE Str(n \div 10) \o SubSeq(DigitChars, (n % 10) + 1, (n % 10) + 1)

\* a plausible slip: every document of the list is rendered
SelectedDocsUnlimited(docs) == docs

\* documents[:max_docs]
SelectedDocs(docs) ==
    SubSeq(docs, 1, IF Len(docs) < MaxContextDocs THEN Len(docs) ELSE MaxContextDocs)

\* content[:max_content_length] + "..." when the content is longer
TruncateContent(content) ==
    IF Len(content) > MaxContentLength
    THEN SubSeq(content, 1, MaxContentLength) \o "..."
    ELSE content

\* what one pass of the loop adds to the context, for the i-th selected document
ContextBlock(i, doc) ==
    "--- Documento " \o Str(i) \o ": "
        \o DictGet(doc, "title", "Documento " \o Str(i)) \o " ---\n"
        \o (IF DictGet(doc, "file_name", "") # ""
            THEN "Fonte: " \o DictGet(doc, "file_name", "") \o "\n" ELSE "")
        \o TruncateContent(DictGet(doc, "content", "")) \o "\n\n"

RECURSIVE ContextBlocks(_, _)
ContextBlocks(docs, i) ==
    IF i > Len(docs) THEN ""
    ELSE ContextBlock(i, docs[i]) \o ContextBlocks(docs, i + 1)

\* _build_rag_context(documents, query)
BuildRagContext(docs, q) ==
    IF docs = <<>>
    THEN "Não foram encontrados documentos relevantes para a consulta."
    ELSE "Contexto baseado em "
            \o Str(IF Len(docs) < MaxContextDocs THEN Len(docs) ELSE MaxContextDocs)
            \o " documentos relevantes para a consulta: '" \o q \o "'\n\n"
            \o ContextBlocks(SelectedDocs(docs), 1)

\* candidates with and without a title, a content (short, exactly at the
\* limit, one character over it) and a file name
ContextContents ==
    {"ab", Repeat("a", MaxContentLength), Repeat("a", MaxContentLength) \o "b"}
ContextCandidates ==
    {[content |-> c] : c \in ContextContents}
    \cup {[title |-> "t", content |-> c] : c \in ContextContents}
    \cup {[title |-> "t", content |-> c, file_name |-> "f.txt"] : c \in ContextContents}
    \cup {[file_name |-> "f.txt"], [title |-> "t"]}

\* plain documents, each with its own title and content
Fillers(k) == [i \in 1..k |-> [title |-> "d" \o Str(i), content |-> "c" \o Str(i)]]

\* ranked lists of 0 to MaxFillers + 2 documents
ContextLists ==
    {first \o Fillers(k) \o last :
        first \in SeqsUpTo(ContextCandidates, 1),
        k \in {0} \cup ((MaxFillers - 2)..MaxFillers),
        last \in SeqsUpTo(ContextCandidates, 1)}

InitContext ==
    /\ IdleLate
    /\ IdleChunk
    /\ IdleIndex
    /\ IdleSearch
    /\ IdleMerge
    /\ IdleExpand
    /\ IdleRerank
    /\ IdleIngest
    /\ IdleDetect
    /\ context_documents \in ContextLists
    /\ context_query \in {"", "perfil"}
    /\ rag_context = ""
    /\ context_pc = "ready"

CallBuildRagContext ==
    /\ context_pc = "ready"
    /\ rag_context' = BuildRagContext(context_documents, context_query)
    /\ context_pc' = "built"
    /\ UNCHANGED <<context_documents, context_query>>
    /\ UNCHANGED <<coreVars, expandVars, rerankVars, ingestVars, detectVars, lateVars>>

NextContext == CallBuildRagContext

SpecContext == InitContext /\ [][NextContext]_vars

\* the lines of a string (str.split("\n"))
LinesOf(s) ==
    LET nl == {i \in 1..Len(s) : SubSeq(s, i, i) = "\n"}
        pos == [j \in 1..Cardinality(nl) |->
                   CHOOSE p \in nl : Cardinality({q \in nl : q < p}) = j - 1]
        edge(j) == IF j = 0 THEN 0
                   ELSE IF j > Cardinality(nl) THEN Len(s) + 1 ELSE pos[j]
    IN  [j \in 1..(Cardinality(nl) + 1) |-> SubSeq(s, edge(j - 1) + 1, edge(j) - 1)]

StartsWith(s, prefix) ==
    Len(s) >= Len(prefix) /\ SubSeq(s, 1, Len(prefix)) = prefix

\* C19: _build_rag_context renders exactly the first min(10, n) documents of
\* the list, in the same order, numbered consecutively from 1, each with its
\* body cut to at most its first 1000 characters
C19_FirstTenInOrderTruncated ==
    (context_pc = "built" /\ context_documents # <<>>) =>
        LET lines == LinesOf(rag_context)
            heads == SelectSeq([j \in 1..Len(lines) |-> j],
                               LAMBDA j : StartsWith(lines[j], "--- Documento "))
            n == Len(context_documents)
        IN  /\ Len(heads) = IF n < 10 THEN n ELSE 10
            /\ \A i \in 1..Len(heads) :
                  LET doc == context_documents[i]
                      original == DictGet(doc, "content", "")
                      rendered == lines[heads[i] + (IF DictGet(doc, "file_name", "") # ""
                                                THEN 2 ELSE 1)]
                  IN  /\ lines[heads[i]] =
                             "--- Documento " \o Str(i) \o ": "
                                 \o DictGet(doc, "title", "Documento " \o Str(i)) \o " ---"
                      /\ rendered = IF Len(original) <= 1000 THEN original
                                ELSE SubSeq(original, 1, 1000) \o "..."

C19_Witness ==
    /\ context_pc = "built"
    /\ Len(context_documents) > 10
    /\ Len(DictGet(context_documents[1], "content", "")) > 1000
    /\ Len(DictGet(context_documents[Len(context_documents)], "content", "")) > 1000


-----------------------------------------------------------------------------
(* DocumentIngestor._ensure_schema_exists against the schema of the store: *)
(* a sequence of initialisations with documents indexed in between.        *)

MaxSchemaSteps == 3   \* most initialisations and index runs in a behaviour

\* a plausible slip: the class is created without looking at the schema
SchemaCallsAlwaysCreate(e) ==
    IF e.client = "raise" THEN <<>>
    ELSE IF e.schema_get = "raise" THEN <<"get">>
    ELSE <<"get", "create_class">>

\* the schema calls one initialisation makes, in order
SchemaCalls(e) ==
    IF e.client = "raise" THEN <<>>
    ELSE IF e.schema_get = "no_class" THEN <<"get", "create_class">>
    ELSE <<"get">>

\* the classes of the schema after the calls of one initialisation
SchemaAfter(classes, e, made) ==
    IF \E i \in 1..Len(made) : made[i] = "create_class"
    THEN IF e.create_class = "ok" /\ "Document" \notin classes
         THEN classes \cup {"Document"}
         ELSE classes
    ELSE classes

\* what the store replies to schema.get() when it does not raise
SchemaReply(classes) == IF "Document" \in classes THEN "has_class" ELSE "no_class"

InitSchema ==
    /\ IdleChunk
    /\ IdleSearch
    /\ IdleMerge
    /\ IdleExpand
    /\ IdleRerank
    /\ IdleDetect
    /\ IdleContext
    /\ IdleLateButSchema
    /\ files \in [FileNames -> IngestBodies]
    /\ store = {}
    /\ clock = 0
    /\ prevRun = NoRun
    /\ lastRun = NoRun
    /\ ingestor = "none"
    /\ kinds = [f \in FileNames |-> "text"]
    /\ documents_db = FileNames
    /\ call = [op |-> "none"]
    /\ schema_classes \in SUBSET {"Document", "Other"}

\* DocumentIngestor(): one more initialisation of the Index Writer
InitialiseIngestor ==
    /\ clock < MaxSchemaSteps
    /\ \E e \in ConstructEnvs :
          /\ e.schema_get \in {"raise", SchemaReply(schema_classes)}
          /\ call' = [op |-> "DocumentIngestor", outcome |-> ConstructIngestor(e),
                      schema_calls |-> SchemaCalls(e)]
          /\ schema_classes' = SchemaAfter(schema_classes, e, SchemaCalls(e))
          /\ ingestor' = IF ConstructIngestor(e) = "returned" THEN "ready" ELSE ingestor
    /\ clock' = clock + 1
    /\ UNCHANGED <<files, store, prevRun, lastRun, kinds, documents_db>>
    /\ UNCHANGED <<chunkVars, searchVars, mergeVars, expandVars, rerankVars,
                   detectVars, contextVars, lateButSchema>>

\* index_document(process_document(f)) on an initialised ingestor
SchemaIndexFile(f) ==
    /\ ingestor = "ready"
    /\ "Document" \in schema_classes
    /\ clock < MaxSchemaSteps
    /\ \E r \in {IndexDocument(store, ProcessFile(f, kinds[f], files[f], clock + 1),
                               {}, FALSE)} :
          /\ store' = r.store
          /\ call' = [op |-> "index_document", outcome |-> "returned", value |-> r.ok]
    /\ clock' = clock + 1
    /\ UNCHANGED <<files, prevRun, lastRun, ingestor, kinds, documents_db>>
    /\ UNCHANGED schema_classes
    /\ UNCHANGED <<chunkVars, searchVars, mergeVars, expandVars, rerankVars,
                   detectVars, contextVars, lateButSchema>>

NextSchema ==
    \/ InitialiseIngestor
    \/ \E f \in FileNames : SchemaIndexFile(f)

SpecSchema == InitSchema /\ [][NextSchema]_vars

\* C21: over any sequence of initialisations, _ensure_schema_exists creates
\* the Document class only when it is absent; when the class exists it issues
\* no schema change and leaves every indexed object in the store unchanged
C21_SchemaCreationIdempotent ==
    [][(call'.op = "DocumentIngestor" /\ clock' # clock) =>
          LET creates == \E i \in 1..Len(call'.schema_calls) :
                            call'.schema_calls[i] = "create_class"
          IN  /\ creates => "Document" \notin schema_classes
              /\ "Document" \in schema_classes =>
                    /\ ~creates
                    /\ schema_classes' = schema_classes
                    /\ store' = store]_vars

C21_Witness ==
    /\ call.op = "DocumentIngestor"
    /\ call.outcome = "returned"
    /\ call.schema_calls = <<"get">>
    /\ store # {}
    /\ "Document" \in schema_classes


-----------------------------------------------------------------------------
(* Reranking and store availability in process_query and search_documents  *)
(* (checked under SpecSearch)                                               *)

\* C25: every candidate list process_query hands to _build_rag_context has
\* passed through the reranker as a whole: on every path the list is ordered
\* by non-increasing rerank score
C25_ContextListRerankedAsAWhole ==
    lastOp = "process_query" =>
        \A i, j \in 1..Len(result) : i < j => result[i].rr >= result[j].rr

\* the last operation sent a document query to the store
ConsultedStore ==
    \E i \in 1..Len(calls) : calls[i].call \in {"near_text", "get_all"}

\* C26: store unavailability is judged per query and does not persist: if the
\* store is ready at the time of a query, search_documents consults the store
\* for that query, whatever happened at construction or in earlier queries
C26_ReadyStoreIsConsulted ==
    (lastOp = "search_documents" /\ store_ready = "true") => ConsultedStore


-----------------------------------------------------------------------------
(* ObjectiveClassifier: the mapping between objective types and the ids    *)
(* of the objectives in the system. A dict is the sequence of its          *)
(* (key, value) pairs in insertion order.                                  *)

OBJECTIVE_EXPLORE == "explore"
OBJECTIVE_VALIDATE == "validate"
OBJECTIVE_INSIGHT == "insight"

OBJECTIVE_MAPPING ==
    << <<OBJECTIVE_EXPLORE, "obj_explore">>,
       <<OBJECTIVE_VALIDATE, "obj_validate">>,
       <<OBJECTIVE_INSIGHT, "obj_insight">> >>

\* {v: k for k, v in OBJECTIVE_MAPPING.items()}
OBJECTIVE_ID_MAPPING ==
    [i \in 1..Len(OBJECTIVE_MAPPING) |-> <<OBJECTIVE_MAPPING[i][2], OBJECTIVE_MAPPING[i][1]>>]

\* d.get(key, default): of the pairs with this key, the one inserted last
PairsGet(d, key, default) ==
    LET hits == {i \in 1..Len(d) : d[i][1] = key}
    IN  IF hits = {} THEN default
        ELSE d[CHOOSE i \in hits : \A j \in hits : j <= i][2]

\* get_objective_id(objective)
GetObjectiveId(o) ==
    PairsGet(OBJECTIVE_MAPPING, o, PairsGet(OBJECTIVE_MAPPING, OBJECTIVE_EXPLORE, ""))

\* a plausible slip: every id is converted to the default objective type
GetObjectiveFromIdDefaultOnly(id) == OBJECTIVE_EXPLORE

\* get_objective_from_id(objective_id)
GetObjectiveFromId(id) == PairsGet(OBJECTIVE_ID_MAPPING, id, OBJECTIVE_EXPLORE)

\* arguments of the two conversions: the three types, the three ids, and
\* strings that are neither
ObjectiveInputs ==
    {"explore", "validate", "insight", "obj_explore", "obj_validate", "obj_insight",
     "Explore", "insights", "obj_other", "other", "obj_", "x"}

InitObjective ==
    /\ IdleEarly
    /\ IdleLateButObjective
    /\ objective = ""
    /\ objective_id = ""
    /\ id_arg = ""
    /\ objective_from_id = ""

CallGetObjectiveId ==
    /\ \E o \in ObjectiveInputs :
          /\ objective' = o
          /\ objective_id' = GetObjectiveId(o)
    /\ UNCHANGED <<id_arg, objective_from_id>>
    /\ UNCHANGED <<coreVars, auxVars, lateButObjective>>

CallGetObjectiveFromId ==
    /\ \E i \in ObjectiveInputs \cup {objective_id} :
          /\ id_arg' = i
          /\ objective_from_id' = GetObjectiveFromId(i)
    /\ UNCHANGED <<objective, objective_id>>
    /\ UNCHANGED <<coreVars, auxVars, lateButObjective>>

NextObjective == CallGetObjectiveId \/ CallGetObjectiveFromId

SpecObjective == InitObjective /\ [][NextObjective]_vars

ObjectiveTypes == {OBJECTIVE_EXPLORE, OBJECTIVE_VALIDATE, OBJECTIVE_INSIGHT}

\* C24: the mapping round-trips: for every objective type in {explore,
\* validate, insight}, get_objective_from_id(get_objective_id(type)) = type,
\* and get_objective_id is injective on the three types
C24_ObjectiveMappingRoundTrips ==
    /\ (objective \in ObjectiveTypes /\ id_arg = objective_id) =>
            objective_from_id = objective
    /\ \A a, b \in ObjectiveTypes :
            GetObjectiveId(a) = GetObjectiveId(b) => a = b

C24_Witness ==
    /\ objective = OBJECTIVE_INSIGHT
    /\ objective_id = "obj_insight"
    /\ id_arg = objective_id
    /\ objective_from_id = OBJECTIVE_INSIGHT


-----------------------------------------------------------------------------
(* FeedbackManager on one feedback file: save_feedback as its three steps  *)
(* (build the entry, load the file and append, write the file),            *)
(* get_all_feedback and get_feedback_stats. An optional argument is <<>>   *)
(* when it is None and <<value>> otherwise.                                *)

MaxSaves == 2   \* most save_feedback calls in a behaviour

Callers == {1, 2}

\* the file as json.load finds it: a list of entries, or text that is not JSON
JsonFile(entries) == [valid |-> TRUE, entries |-> entries]
CorruptFile == [valid |-> FALSE, entries |-> <<>>]

\* comments or ''
CommentsOrEmpty(comments) == IF comments = <<>> THEN "" ELSE comments[1]

\* the dict save_feedback builds
FeedbackEntry(now, q, response, sources, is_helpful, comments) ==
    [timestamp |-> now, query |-> q, response |-> response, sources |-> sources,
     is_helpful |-> is_helpful, comments |-> CommentsOrEmpty(comments)]

\* json.load(f) in save_feedback: [] on JSONDecodeError
LoadOrEmpty(file) == IF file.valid THEN file.entries ELSE <<>>

\* get_all_feedback(): [] on any exception
GetAllFeedback(file) == IF file.valid THEN file.entries ELSE <<>>

\* s.strip() is not empty
HasText(s) == \E i \in 1..Len(s) : SubSeq(s, i, i) \notin Whitespace

\* a plausible slip: every entry is counted as helpful
HelpfulCountAll(feedbacks) == Len(feedbacks)

\* sum(1 for f in feedbacks if f.get('is_helpful', False))
HelpfulCount(feedbacks) ==
    Cardinality({i \in 1..Len(feedbacks) : feedbacks[i].is_helpful})

\* (count / total) * 100, kept as the fraction count * 100 / total
Percentage(count, total) == IF total > 0 THEN <<count * 100, total>> ELSE <<0, 1>>

\* get_feedback_stats()
GetFeedbackStats(file) ==
    LET feedbacks == GetAllFeedback(file)
        total == Len(feedbacks)
        helpful_count == HelpfulCount(feedbacks)
        with_comments_count ==
            Cardinality({i \in 1..Len(feedbacks) : HasText(feedbacks[i].comments)})
    IN  IF feedbacks = <<>>
        THEN [total |-> 0, helpful_count |-> 0, helpful_percentage |-> <<0, 1>>,
              unhelpful_count |-> 0, unhelpful_percentage |-> <<0, 1>>,
              with_comments_count |-> 0, with_comments_percentage |-> <<0, 1>>]
        ELSE [total |-> total, helpful_count |-> helpful_count,
              helpful_percentage |-> Percentage(helpful_count, total),
              unhelpful_count |-> total - helpful_count,
              unhelpful_percentage |-> Percentage(total - helpful_count, total),
              with_comments_count |-> with_comments_count,
              with_comments_percentage |-> Percentage(with_comments_count, total)]

IdleCaller == [pc |-> "idle", feedback |-> <<>>, feedbacks |-> <<>>]

\* the save_feedback calls begun so far
SavesBegun ==
    Len(feedback_log) + Cardinality({p \in Callers : saving[p].pc # "idle"})

FeedbackArgs ==
    [query : {"q1", "q2"}, response : {"r"}, sources : {<<>>},
     is_helpful : BOOLEAN, comments : {<<>>, <<"ok">>}]

\* FeedbackManager(feedback_dir) on a fresh directory: the file holds []
InitFeedback ==
    /\ IdleEarly
    /\ IdleLateButFeedback
    /\ feedback_file = JsonFile(<<>>)
    /\ saving = [p \in Callers |-> IdleCaller]
    /\ feedback_log = <<>>
    /\ feedback_view = [op |-> "none"]

\* save_feedback, lines 70-77: the entry is built
BeginSave(p) ==
    /\ saving[p].pc = "idle"
    /\ SavesBegun < MaxSaves
    /\ \E a \in FeedbackArgs :
          saving' = [saving EXCEPT ![p] =
                        [pc |-> "built",
                         feedback |-> <<FeedbackEntry(SavesBegun + 1, a.query, a.response,
                                                      a.sources, a.is_helpful, a.comments)>>,
                         feedbacks |-> <<>>]]
    /\ UNCHANGED <<feedback_file, feedback_log, feedback_view>>
    /\ UNCHANGED <<coreVars, auxVars, lateButFeedback>>

\* save_feedback, lines 80-87: the file is loaded and the entry appended
LoadAndAppend(p) ==
    /\ saving[p].pc = "built"
    /\ saving' = [saving EXCEPT ![p].pc = "loaded",
                                ![p].feedbacks =
                                    LoadOrEmpty(feedback_file) \o saving[p].feedback]
    /\ UNCHANGED <<feedback_file, feedback_log, feedback_view>>
    /\ UNCHANGED <<coreVars, auxVars, lateButFeedback>>

\* save_feedback, lines 90-98: the file is written and the call returns;
\* open() may raise (the file is left as it was) and json.dump may raise
\* after open() truncated the file
WriteAndReturn(p) ==
    /\ saving[p].pc = "loaded"
    /\ \E outcome \in {"ok", "open_raises", "dump_raises"} :
          /\ feedback_file' = CASE outcome = "ok" -> JsonFile(saving[p].feedbacks)
                                [] outcome = "open_raises" -> feedback_file
                                [] OTHER -> CorruptFile
          /\ feedback_log' = Append(feedback_log,
                                    [caller |-> p, returned |-> (outcome = "ok"),
                                     feedback |-> saving[p].feedback[1]])
    /\ saving' = [saving EXCEPT ![p] = IdleCaller]
    /\ UNCHANGED feedback_view
    /\ UNCHANGED <<coreVars, auxVars, lateButFeedback>>

CallGetAllFeedback ==
    /\ feedback_view' = [op |-> "get_all_feedback", value |-> GetAllFeedback(feedback_file),
                         saves |-> feedback_log]
    /\ UNCHANGED <<feedback_file, saving, feedback_log>>
    /\ UNCHANGED <<coreVars, auxVars, lateButFeedback>>

CallGetFeedbackStats ==
    /\ feedback_view' = [op |-> "get_feedback_stats", value |-> GetFeedbackStats(feedback_file),
                         saves |-> feedback_log]
    /\ UNCHANGED <<feedback_file, saving, feedback_log>>
    /\ UNCHANGED <<coreVars, auxVars, lateButFeedback>>

NoSaveInProgress == \A p \in Callers : saving[p].pc = "idle"

\* one call at a time: a call begins when no other call is in progress
NextFeedback ==
    \/ \E p \in Callers : NoSaveInProgress /\ BeginSave(p)
    \/ \E p \in Callers : LoadAndAppend(p)
    \/ \E p \in Callers : WriteAndReturn(p)
    \/ NoSaveInProgress /\ CallGetAllFeedback
    \/ NoSaveInProgress /\ CallGetFeedbackStats

SpecFeedback == InitFeedback /\ [][NextFeedback]_vars

\* calls of several callers interleave step by step
NextFeedbackConcurrent ==
    \/ \E p \in Callers : BeginSave(p)
    \/ \E p \in Callers : LoadAndAppend(p)
    \/ \E p \in Callers : WriteAndReturn(p)
    \/ CallGetAllFeedback
    \/ CallGetFeedbackStats

SpecFeedbackConcurrent == InitFeedback /\ [][NextFeedbackConcurrent]_vars

AllReturnedTrue(saves) == \A i \in 1..Len(saves) : saves[i].returned

\* C23: on a fresh directory, after n save_feedback calls that each returned
\* True, get_all_feedback returns exactly n entries in save order with the
\* saved query, response, is_helpful and comments ('' when none was given),
\* and get_feedback_stats reports total = n, helpful_count = the number of
\* saves with is_helpful true, and helpful_count + unhelpful_count = total
C23_FeedbackIsKeptAndCounted ==
    /\ (feedback_view.op = "get_all_feedback" /\ AllReturnedTrue(feedback_view.saves)) =>
          /\ Len(feedback_view.value) = Len(feedback_view.saves)
          /\ \A i \in 1..Len(feedback_view.saves) :
                LET kept == feedback_view.value[i]
                    given == feedback_view.saves[i].feedback
                IN  /\ kept.query = given.query
                    /\ kept.response = given.response
                    /\ kept.is_helpful = given.is_helpful
                    /\ kept.comments = given.comments
    /\ (feedback_view.op = "get_feedback_stats" /\ AllReturnedTrue(feedback_view.saves)) =>
          /\ feedback_view.value.total = Len(feedback_view.saves)
          /\ feedback_view.value.helpful_count =
                Cardinality({i \in 1..Len(feedback_view.saves) :
                                feedback_view.saves[i].feedback.is_helpful})
          /\ feedback_view.value.helpful_count + feedback_view.value.unhelpful_count
                = feedback_view.value.total

C23_Witness ==
    /\ feedback_view.op = "get_feedback_stats"
    /\ Len(feedback_view.saves) = 2
    /\ AllReturnedTrue(feedback_view.saves)
    /\ feedback_view.value.helpful_count = 1
    /\ feedback_view.value.unhelpful_count = 1

\* C30: no entry is lost under concurrency: when save_feedback calls on the
\* same file interleave and all return True, the file afterwards holds the
\* entry of each of them
C30_NoFeedbackLostUnderConcurrency ==
    (NoSaveInProgress /\ AllReturnedTrue(feedback_log)) =>
        \A i \in 1..Len(feedback_log) :
            \E j \in 1..Len(GetAllFeedback(feedback_file)) :
                GetAllFeedback(feedback_file)[j] = feedback_log[i].feedback


-----------------------------------------------------------------------------
(* Two queries on the shared RAGIntegration instance of the API:           *)
(* search_documents as the steps between its reads and writes of           *)
(* self.weaviate_connected. Each query has the replies the store gives to  *)
(* its own calls (env).                                                    *)

QueryIds == {1, 2}

ConcurrentEnvs ==
    [ready : ReadyOutcomes, schema : {"vectorizer_none", "text2vec"},
     semantic : {-1, 2}, getall : QueryOutcomes, getall2 : {"ok"}]

IdleQuery == [pc |-> "idle", env |-> <<>>, rerank |-> FALSE, docs |-> <<>>]

InitConcurrent ==
    /\ IdleAux
    /\ IdleChunk
    /\ IdleIndex
    /\ IdleMerge
    /\ IdleLateButConcurrent
    /\ \E o \in ConstructOutcomes :
          /\ client = Construct(o).client
          /\ weaviate_connected = Construct(o).connected
          /\ constructed = Construct(o).connected
    /\ mirror \in {"missing", "present"}
    /\ lastOp = "init"
    /\ trace = <<>>
    /\ calls = <<>>
    /\ sem = [status |-> "idle", n |-> 0, schema |-> "unread"]
    /\ result = <<>>
    /\ running = [q \in QueryIds |-> IdleQuery]

\* what stays as it is in every step of a query
QueryFrame ==
    /\ UNCHANGED <<client, mirror, lastOp, trace, calls, sem, result, constructed>>
    /\ UNCHANGED <<chunkVars, indexVars, mergeVars, auxVars, lateButConcurrent>>

\* search_documents(query) is called
BeginSearch(q) ==
    /\ running[q].pc = "idle"
    /\ \E e \in ConcurrentEnvs :
          running' = [running EXCEPT ![q] = [IdleQuery EXCEPT !.pc = "check", !.env = e]]
    /\ UNCHANGED weaviate_connected
    /\ QueryFrame

\* lines 184-186: if not self.client or not self.weaviate_connected
CheckConnected(q) ==
    /\ running[q].pc = "check"
    /\ running' = [running EXCEPT ![q].pc =
                      IF client = "none" \/ ~weaviate_connected THEN "keyword" ELSE "is_ready"]
    /\ UNCHANGED weaviate_connected
    /\ QueryFrame

\* lines 188-196: self.weaviate_connected = self.client.is_ready()
IsReady(q) ==
    /\ running[q].pc = "is_ready"
    /\ weaviate_connected' =
          IF running[q].env.ready = "raise" THEN weaviate_connected
          ELSE running[q].env.ready = "true"
    /\ running' = [running EXCEPT ![q].pc =
                      IF running[q].env.ready = "true" THEN "tiers" ELSE "keyword"]
    /\ QueryFrame

\* lines 198-234: the vectorizer check and the semantic tier
SemanticTier(q) ==
    /\ running[q].pc = "tiers"
    /\ LET e == running[q].env
           attempted == Vectorizer(e.schema) # "none"
           semDocs == IF attempted /\ e.semantic >= 0
                      THEN Slice(StoreDocs, 0, Min(e.semantic, KeywordDefaultLimit))
                      ELSE <<>>
       IN  running' = [running EXCEPT ![q] =
                          IF semDocs = <<>>
                          THEN [@ EXCEPT !.pc = "keyword", !.rerank = TRUE]
                          ELSE [@ EXCEPT !.pc = "done", !.docs = RerankDocuments(semDocs)]]
    /\ UNCHANGED weaviate_connected
    /\ QueryFrame

\* _keyword_search (it reads self.weaviate_connected at line 299), then
\* lines 243-248 when it was called from the hybrid path
KeywordTier(q) ==
    /\ running[q].pc = "keyword"
    /\ LET k == KeywordSearch(client, weaviate_connected, running[q].env.getall,
                              mirror, KeywordDefaultLimit)
       IN  running' = [running EXCEPT ![q].pc = "done",
                                      ![q].docs = IF running[q].rerank
                                                  THEN RerankDocuments(k.docs)
                                                  ELSE k.docs]
    /\ UNCHANGED weaviate_connected
    /\ QueryFrame

NextConcurrent ==
    \/ \E q \in QueryIds : BeginSearch(q)
    \/ \E q \in QueryIds : CheckConnected(q)
    \/ \E q \in QueryIds : IsReady(q)
    \/ \E q \in QueryIds : SemanticTier(q)
    \/ \E q \in QueryIds : KeywordTier(q)

SpecConcurrent == InitConcurrent /\ [][NextConcurrent]_vars

\* what the query returns when it is the only query of the instance
AloneResult(q) ==
    SearchDocuments(client, constructed, running[q].env, mirror, KeywordDefaultLimit).docs

\* C22: concurrent queries share no mutable state: the result of a query
\* does not depend on how it interleaves with other queries, it is the result
\* the query gets from the same store replies when it runs alone
C22_ResultIndependentOfOtherQueries ==
    \A q \in QueryIds : running[q].pc = "done" => running[q].docs = AloneResult(q)

-----------------------------------------------------------------------------
(* Specification of the Index Writer over long sections: the bodies hold   *)
(* sections longer than the prefix the content identifier reads.           *)

\* a paragraph of HashPrefixLen letters "a" followed by the letter c
LongParagraph(c) == [i \in 1..HashPrefixLen |-> "a"] \o <<c>>

\* the last letters of the two long paragraphs of a body: equal or different
TailPairs == {<<"b", "b">>, <<"b", "c">>}

\* two sections headed "A", each of one long paragraph
LongBodies ==
    {Join(<<<<"A">>, LongParagraph(t[1]), <<"A">>, LongParagraph(t[2])>>) : t \in TailPairs}

InitIndexLong ==
    /\ IdleLate
    /\ IdleAux
    /\ IdleChunk
    /\ IdleSearch
    /\ IdleMerge
    /\ files \in [FileNames -> LongBodies]
    /\ store = {}
    /\ clock = 0
    /\ prevRun = NoRun
    /\ lastRun = NoRun

SpecIndexLong == InitIndexLong /\ [][NextIndex]_vars

\* the chunk bodies of a file, whole
ChunkBodies(f) ==
    LET cs == ChunkDocumentSemantic(files[f])
    IN  {cs[i].content : i \in 1..Len(cs)}

\* C27: after a run of index_document in which no chunk failed, the store
\* holds every chunk body of the document and the run wrote one content
\* identifier per distinct chunk body: no chunk overwrote another.
C27_NoChunkOverwritesAnother ==
    CleanRun(lastRun) =>
        /\ Cardinality(lastRun.written) = Cardinality(ChunkBodies(lastRun.file))
        /\ \A b \in ChunkBodies(lastRun.file) :
              \E o \in store : o.content = Sanitize(b)

-----------------------------------------------------------------------------
(* The counts of reindex_all_documents (checked under SpecIngest) *)

ReturnedFromDirectory ==
    /\ call.op = "reindex_all_documents"
    /\ call.data_dir = "data/raw"
    /\ call.outcome = "returned"

\* C28: the counts of reindex_all_documents reflect chunk write failures: a
\* file counted under success had every chunk handed to the store without
\* error, and a file of which some chunk failed is counted under failed.
C28_CountsReflectChunkFailures ==
    ReturnedFromDirectory =>
        \A i \in 1..Len(call.results) :
            /\ call.results[i].result = "success" => call.results[i].failing = {}
            /\ call.results[i].failing # {} => call.results[i].result = "failed"

\* the positions of the listing that hold regular files
RegularFiles(listing) == {i \in 1..Len(listing) : listing[i] \notin Directories}

\* C29: reindex_all_documents counts every regular file of the directory
\* exactly once: success + failed + skipped is the number of regular files
\* listed, skipped is the number of those with an unsupported extension, and
\* a subdirectory is not counted.
C29_EveryRegularFileCountedOnce ==
    ReturnedFromDirectory =>
        /\ call.value.success + call.value.failed + call.value.skipped =
               Cardinality(RegularFiles(call.listing))
        /\ call.value.skipped =
               Cardinality({i \in RegularFiles(call.listing) : call.listing[i] \notin FileNames})
        /\ \A i \in 1..Len(call.results) :
               call.results[i].file \in Directories =>
                   call.results[i].result \notin {"success", "failed", "skipped"}

\* C29 witness: a directory of two text files, a subdirectory and an
\* unsupported file was reindexed, one text file failing.
C29_Witness ==
    /\ ReturnedFromDirectory
    /\ call.listing = DirectoryEntries
    /\ call.value = [success |-> 1, failed |-> 1, skipped |-> 1]
    /\ \E i \in 1..Len(call.results) : call.results[i].file \in Directories

=============================================================================
